---------------------------- MODULE Spec2Model ----------------------------
(***************************************************************************)
(* A model of the bioreactor pilot dashboard (src/src/app.py): the raw     *)
(* export file indexer and date filter, the batch merger with its          *)
(* process-wide accumulator, the series loader (outlier filter and         *)
(* resampling) and the helpers they share.                                 *)
(*                                                                         *)
(* Text is modelled as a sequence of one-character strings, so that        *)
(* splitting, sanitizing and parsing are computed character by character   *)
(* as the Python code computes them.  A calendar date is the integer       *)
(* yyyymmdd (its order is the order of the datetime values compared in     *)
(* the code, all of which lie at midnight).                                *)
(***************************************************************************)
EXTENDS Integers, Sequences, FiniteSets, TLC

VARIABLES
    primary_listing,     \* list_csv_files(primary_bucket): object names, listing order
    output_store,        \* output bucket: object name -> merged variable file
    merged_dataframes,   \* the module-level accumulator (line 314)
    filename_prefixes,   \* the module-level list of batch prefixes (line 317)
    call,                \* the callback (or function) that ran last: arguments and result
    req,                 \* the requests in flight (interleaved execution only)
    manual_store         \* the objects of the manual output bucket: name -> content

vars == <<primary_listing, output_store, merged_dataframes,
          filename_prefixes, call, req, manual_store>>

(***************************************************************************)
(* Characters and text                                                     *)
(***************************************************************************)
Digits == {"0","1","2","3","4","5","6","7","8","9"}

Letters ==
    {"a","b","c","d","e","f","g","h","i","j","k","l","m","n","o","p","q","r","s",
     "t","u","v","w","x","y","z",
     "A","B","C","D","E","F","G","H","I","J","K","L","M","N","O","P","Q","R","S",
     "T","U","V","W","X","Y","Z"}

\* str.isalnum() on the characters the model uses
isalnum(c) == c \in Letters \cup Digits

DigitValue(c) ==
    CASE c = "0" -> 0 [] c = "1" -> 1 [] c = "2" -> 2 [] c = "3" -> 3
      [] c = "4" -> 4 [] c = "5" -> 5 [] c = "6" -> 6 [] c = "7" -> 7
      [] c = "8" -> 8 [] c = "9" -> 9

\* s[from..] (1-based), the empty text when from is past the end
Drop(s, from) == IF from > Len(s) THEN <<>> ELSE SubSeq(s, from, Len(s))

\* the position of the first sep in s at or after from, 0 when there is none
RECURSIVE Find(_, _, _)
Find(s, sep, from) ==
    IF from > Len(s) THEN 0
    ELSE IF s[from] = sep THEN from
    ELSE Find(s, sep, from + 1)

\* str.split(sep): every separator cuts, empty tokens are kept
RECURSIVE split(_, _)
split(s, sep) ==
    LET i == Find(s, sep, 1)
    IN  IF i = 0 THEN <<s>>
        ELSE <<SubSeq(s, 1, i - 1)>> \o split(Drop(s, i + 1), sep)

\* str.split(sep, 1): at most one cut
split1(s, sep) ==
    LET i == Find(s, sep, 1)
    IN  IF i = 0 THEN <<s>>
        ELSE <<SubSeq(s, 1, i - 1), Drop(s, i + 1)>>

\* str.endswith(suffix)
endswith(s, suffix) ==
    /\ Len(s) >= Len(suffix)
    /\ SubSeq(s, Len(s) - Len(suffix) + 1, Len(s)) = suffix

\* str.rstrip(): the text without its trailing whitespace
RECURSIVE rstrip(_)
rstrip(s) ==
    IF s = <<>> THEN s
    ELSE IF s[Len(s)] \in {" ", "\t", "\n"} THEN rstrip(SubSeq(s, 1, Len(s) - 1))
    ELSE s

DotCsv == <<".","c","s","v">>

Underscore == <<"_">>

(***************************************************************************)
(* datetime.strptime(text, "%Y%m%d")                                       *)
(*                                                                         *)
(* The format compiles to the regular expression                           *)
(*   (\d\d\d\d)(1[0-2]|0[1-9]|[1-9])(3[01]|[12]\d|0[1-9]|[1-9]| [1-9])     *)
(* matched at the start of the text; the first match in the alternatives'  *)
(* order is taken, text left over after it is an error, and so is a day    *)
(* the month does not have.                                                *)
(***************************************************************************)
NoDate == 0 - 1

IsDigitAt(s, i) == i <= Len(s) /\ s[i] \in Digits

\* the length of the month the regular expression takes at position i, trying
\* the alternatives in order; the candidates, longest first
MonthLens(s, i) ==
    LET two == /\ IsDigitAt(s, i) /\ IsDigitAt(s, i + 1)
               /\ \/ s[i] = "1" /\ s[i + 1] \in {"0","1","2"}
                  \/ s[i] = "0" /\ s[i + 1] # "0"
        one == IsDigitAt(s, i) /\ s[i] # "0"
    IN  (IF two THEN <<2>> ELSE <<>>) \o (IF one THEN <<1>> ELSE <<>>)

\* the length of the day matched at position i (0: no match): the first
\* alternative that matches wins
DayLen(s, i) ==
    IF /\ IsDigitAt(s, i) /\ IsDigitAt(s, i + 1)
       /\ \/ s[i] = "3" /\ s[i + 1] \in {"0","1"}
          \/ s[i] \in {"1","2"}
          \/ s[i] = "0" /\ s[i + 1] # "0"
    THEN 2
    ELSE IF IsDigitAt(s, i) /\ s[i] # "0" THEN 1
    ELSE IF i + 1 <= Len(s) /\ s[i] = " " /\ s[i + 1] \in Digits \ {"0"} THEN 2
    ELSE 0

Number(s) ==
    LET RECURSIVE N(_)
        N(k) == IF k = 0 THEN 0
                ELSE IF s[k] = " " THEN N(k - 1)
                ELSE 10 * N(k - 1) + DigitValue(s[k])
    IN  N(Len(s))

IsLeap(y) == (y % 4 = 0 /\ y % 100 # 0) \/ y % 400 = 0

DaysInMonth(y, m) ==
    IF m = 2 THEN (IF IsLeap(y) THEN 29 ELSE 28)
    ELSE IF m \in {4, 6, 9, 11} THEN 30
    ELSE 31

\* the date of the text as an integer yyyymmdd, NoDate when strptime raises
strptime_Ymd(s) ==
    IF ~ (\A i \in 1..4 : IsDigitAt(s, i)) THEN NoDate
    ELSE
      LET y  == Number(SubSeq(s, 1, 4))
          ms == MonthLens(s, 5)
          \* the first month alternative after which a day matches
          ok == SelectSeq(ms, LAMBDA l : DayLen(s, 5 + l) > 0)
      IN  IF ok = <<>> THEN NoDate
          ELSE
            LET ml == ok[1]
                dl == DayLen(s, 5 + ml)
                m  == Number(SubSeq(s, 5, 4 + ml))
                d  == Number(SubSeq(s, 5 + ml, 4 + ml + dl))
            IN  IF 4 + ml + dl # Len(s) THEN NoDate      \* unconverted data remains
                ELSE IF y < 1 \/ d > DaysInMonth(y, m) THEN NoDate
                ELSE y * 10000 + m * 100 + d

(***************************************************************************)
(* filter_files_by_date (lines 39-53)                                      *)
(***************************************************************************)
\* the date the loop body finds in one name, NoDate when it skips the name
\* (fewer than three tokens: continue; strptime raises: caught and printed)
FileDateSecondToken(file) ==
    LET file_parts == split(file, "_")
    IN  IF Len(file_parts) < 3 THEN NoDate
        ELSE strptime_Ymd(file_parts[2])

FileDate(file) ==
    LET file_parts == split(file, "_")
    IN  IF Len(file_parts) < 3 THEN NoDate
        ELSE strptime_Ymd(file_parts[3])

InRangeExclusiveEnd(d, start_date, end_date) == start_date <= d /\ d < end_date

InRange(d, start_date, end_date) == start_date <= d /\ d <= end_date

filter_files_by_date(files, start_date, end_date) ==
    SelectSeq(files, LAMBDA file :
        LET file_date == FileDate(file)
        IN  file_date # NoDate /\ InRange(file_date, start_date, end_date))

(***************************************************************************)
(* sanitize_filename (lines 56-60)                                         *)
(***************************************************************************)
SanitizeCharKeepAll(c) == c

\* a replacement that also rewrites the underscore it produces
SanitizeCharShifting(c) ==
    IF isalnum(c) \/ c \in {" ", "-"} THEN c ELSE IF c = "_" THEN "-" ELSE "_"

SanitizeChar(c) == IF isalnum(c) \/ c \in {" ", "_", "-"} THEN c ELSE "_"

sanitize_filename(filename) ==
    rstrip([i \in 1..Len(filename) |-> SanitizeChar(filename[i])])

(***************************************************************************)
(* The hard-coded variable tables (lines 198-220, 304-311)                 *)
(***************************************************************************)
AIValues == <<"A","I"," ","V","a","l","u","e","s","_">>

AOValues == <<"A","O"," ","V","a","l","u","e","s","_">>

AnalogInput == <<" ","-"," ","A","n","a","l","o","g"," ","i","n","p","u","t">>

analogInput == <<" ","-"," ","a","n","a","l","o","g"," ","i","n","p","u","t">>

V_78TT001 == AIValues \o <<"7","8","T","T","0","0","1">> \o AnalogInput

V_78TT002 == AIValues \o <<"7","8","T","T","0","0","2">> \o AnalogInput

V_10TT002 == AIValues \o <<"1","0","T","T","0","0","2">> \o AnalogInput

V_20TTC001 == AIValues \o <<"2","0","T","T","C","0","0","1">> \o AnalogInput

V_20FTC003 == AIValues \o <<"2","0","F","T","C","0","0","3">> \o analogInput

V_78FT001 == AIValues \o <<"7","8","F","T","0","0","1">> \o AnalogInput

V_20FTC002 == AIValues \o <<"2","0","F","T","C","0","0","2">> \o AnalogInput

V_20XTC001 == AIValues \o <<"2","0","X","T","C","0","0","1">> \o AnalogInput

V_20XTC002 == AIValues \o <<"2","0","X","T","C","0","0","2">> \o AnalogInput

V_20XT004 == AIValues \o <<"2","0","X","T","0","0","4">> \o AnalogInput

V_20XTC003 == AIValues \o <<"2","0","X","T","C","0","0","3">> \o AnalogInput

V_10PT001 == AIValues \o <<"1","0","P","T","0","0","1">> \o AnalogInput

V_30P001_DATA_2 == <<"3","0","P","0","0","1",".","H","M","I",".","D","A","T","A","_","2">>

V_30P002_DATA_2 == <<"3","0","P","0","0","2",".","H","M","I",".","D","A","T","A","_","2">>

V_30P001_STATUS == <<"3","0","P","0","0","1",".","H","M","I",".","S","T","A","T","U","S">>

V_10R001 == AOValues \o <<"1","0","R","0","0","1">>

V_10R002 == AOValues \o <<"1","0","R","0","0","2">>

V_10R003 == AOValues \o <<"1","0","R","0","0","3">>

V_20PT004 == AIValues \o <<"2","0","P","T","0","0","4">> \o AnalogInput

V_78PT002 == AIValues \o <<"7","8","P","T","0","0","2">> \o AnalogInput

V_78PT001 == AIValues \o <<"7","8","P","T","0","0","1">> \o AnalogInput

\* the list, in the order of the source (the insertion order of the accumulator)
variable_names ==
    <<V_78TT001, V_78TT002, V_10TT002, V_20TTC001, V_20FTC003, V_78FT001,
      V_20FTC002, V_20XTC001, V_20XTC002, V_20XT004, V_20XTC003, V_10PT001,
      V_30P001_DATA_2, V_30P002_DATA_2, V_30P001_STATUS, V_10R001, V_10R002,
      V_10R003, V_20PT004, V_78PT002, V_78PT001>>

VariableSet == {variable_names[i] : i \in DOMAIN variable_names}

skip_variables ==
    {V_30P001_DATA_2, V_30P002_DATA_2, V_30P001_STATUS, V_10R001, V_10R002, V_10R003}

(***************************************************************************)
(* Tabular data.  A raw export file is its column names and its lines; a   *)
(* line is marked bad when it has more fields than the header, which       *)
(* read_csv(on_bad_lines='skip') drops.  A TimeString cell is its layout   *)
(* (fmt) and the instant it denotes in seconds (t); a VarValue cell is a   *)
(* number.                                                                 *)
(***************************************************************************)
Line(name, fmt, t, value) ==
    [bad |-> FALSE, VarName |-> name, TimeString |-> [fmt |-> fmt, t |-> t],
     VarValue |-> value]

BadLine(name, fmt, t, value) ==
    [bad |-> TRUE, VarName |-> name, TimeString |-> [fmt |-> fmt, t |-> t],
     VarValue |-> value]

RawColumns == {"VarName", "TimeString", "VarValue", "Validity", "Time_ms"}

\* pd.read_csv(text, delimiter=';', on_bad_lines='skip') (line 323)
read_raw_csv(file) ==
    LET good == SelectSeq(file.lines, LAMBDA l : ~ l.bad)
    IN  [columns |-> file.columns,
         rows    |-> [i \in 1..Len(good) |->
                         [VarName |-> good[i].VarName, TimeString |-> good[i].TimeString,
                          VarValue |-> good[i].VarValue]]]

(***************************************************************************)
(* The primary bucket of the model                                         *)
(***************************************************************************)
DataLog == <<"D","a","t","a","_","l","o","g","_">>

FileJan10 == DataLog \o <<"2","0","2","4","0","1","1","0">> \o <<"_","a">> \o DotCsv

FileJan15 == DataLog \o <<"2","0","2","4","0","1","1","5">> \o <<"_","a">> \o DotCsv

FileJan20 == DataLog \o <<"2","0","2","4","0","1","2","0">> \o <<"_","a">> \o DotCsv

\* the file name of the documented convention <source>_<YYYYMMDD>_<suffix>.csv
FileDocumented == <<"x","_","2","0","2","4","0","1","1","5","_","y">> \o DotCsv

FileNotes == <<"n","o","t","e","s">> \o DotCsv

FileReadme == <<"r","e","a","d","m","e",".","t","x","t">>

DashFormat == "%d-%m-%Y %H:%M:%S"

DotFormat == "%d.%m.%Y %H:%M:%S"

\* V_20FTC003 is listed with a lower-case "analog input"; this name is not listed
V_20FTC003_Capital == AIValues \o <<"2","0","F","T","C","0","0","3">> \o AnalogInput

\* the objects of the primary bucket: raw export files are produced upstream and
\* only read here
primary_data ==
    (FileJan10 :> [columns |-> RawColumns, lines |->
        << Line(V_78TT001, DashFormat, 0, 10),
           Line(V_10R001, DashFormat, 0, 1),
           Line(V_10R001, DashFormat, 60, 2),
           BadLine(V_78TT001, DashFormat, 60, 99),
           Line(V_10R001, DashFormat, 120, 3),
           Line(V_78TT001, DashFormat, 180, 20),
           Line(V_10R001, DashFormat, 180, 4),
           Line(V_10R001, DashFormat, 240, 100),
           Line(V_30P001_DATA_2, DashFormat, 0, 1),
           Line(V_20FTC003_Capital, DashFormat, 0, 5) >>])
    @@ (FileJan15 :> [columns |-> RawColumns, lines |->
        << Line(V_78TT001, DashFormat, 600, 30),
           Line(V_10R001, DashFormat, 600, 2),
           Line(V_78TT001, DashFormat, 630, 50),
           Line(V_78TT001, DotFormat, 700, 7),
           Line(V_10R001, DotFormat, 700, 3) >>])
    @@ (FileJan20 :> [columns |-> {"Name", "TimeString", "VarValue"}, lines |->
        << Line(V_78TT001, DashFormat, 900, 40) >>])
    @@ (FileDocumented :> [columns |-> RawColumns, lines |->
        << Line(V_78TT002, DashFormat, 0, 1) >>])
    @@ (FileNotes :> [columns |-> {}, lines |-> <<>>])
    @@ (FileReadme :> [columns |-> {}, lines |-> <<>>])

(***************************************************************************)
(* process_csv_file (lines 320-330)                                        *)
(***************************************************************************)
\* df['VarName'] raises KeyError when the file has no such column, and read_csv
\* raises EmptyDataError on a file without a header; nothing catches either
ProcessRaises(file) == file.columns = {} \/ "VarName" \notin file.columns

SameName(a, b) == a = b

\* line 326: the rows of the frame whose VarName is var_name
FilteredRows(rows, var_name) ==
    SelectSeq(rows, LAMBDA r : SameName(r.VarName, var_name))

\* the returned dictionary: only the variables with at least one row
process_csv_file(file) ==
    LET rows == read_raw_csv(file).rows
    IN  [v \in {w \in VariableSet : FilteredRows(rows, w) # <<>>} |-> FilteredRows(rows, v)]

(***************************************************************************)
(* Object storage                                                          *)
(***************************************************************************)
\* list_csv_files (lines 34-36): the names ending in .csv, in listing order
list_csv_files(listing) == SelectSeq(listing, LAMBDA n : endswith(n, DotCsv))

\* a store that keeps nothing but the object uploaded last
uploadOnly(store, name, content) == [n \in {name} |-> content]

\* blob.upload_from_string: the object is created or overwritten wholesale
upload(store, name, content) ==
    [n \in DOMAIN store \cup {name} |-> IF n = name THEN content ELSE store[n]]

\* df.to_csv(index=False) (line 849): a header line and one line per row
to_csv(rows) == [header |-> <<"VarName", "TimeString", "VarValue">>, rows |-> rows]

\* extract_prefixes_from_saved_files (lines 73-80), as the set its list holds
extract_prefixes_from_saved_files(store) ==
    {split(n, "_")[1] : n \in {m \in DOMAIN store : endswith(m, DotCsv)}}

SeqToSet(s) == {s[i] : i \in DOMAIN s}

(***************************************************************************)
(* update_file_list (lines 815-871)                                        *)
(***************************************************************************)
\* absent callback inputs (None, or an empty text); InvalidIso is a date text
\* datetime.fromisoformat rejects
NoInput == 0

InvalidIso == 0 - 2

KeepAccumulator(md) == md

\* line 832: the accumulator is rebound to empty frames, one per variable
ResetAccumulator(md) == [v \in VariableSet |-> <<>>]

\* an accumulator without concatenation: a file's rows replace the earlier ones
ReplaceFrames(md, dataframes) ==
    [v \in VariableSet |-> IF v \in DOMAIN dataframes THEN dataframes[v] ELSE md[v]]

\* lines 837-839: the rows of one file are appended, variable by variable
Accumulate(md, dataframes) ==
    [v \in VariableSet |->
        IF v \in DOMAIN dataframes THEN md[v] \o dataframes[v] ELSE md[v]]

\* lines 834-839: the loop over the selected files; an exception of
\* process_csv_file leaves the loop and the callback
RECURSIVE MergeLoop(_, _, _)
MergeLoop(data, md, files) ==
    IF files = <<>> THEN [md |-> md, raised |-> FALSE]
    ELSE IF ProcessRaises(data[Head(files)]) THEN [md |-> md, raised |-> TRUE]
    ELSE MergeLoop(data, Accumulate(md, process_csv_file(data[Head(files)])), Tail(files))

\* line 845
OutputFile(filename_prefix, var_name) ==
    filename_prefix \o Underscore \o sanitize_filename(var_name) \o DotCsv

\* lines 841-852: every non-empty frame is uploaded, in the accumulator's order;
\* the store and the list of saved files after variables k..21
RECURSIVE SaveLoop(_, _, _, _, _)
SaveLoop(store, saved, md, filename_prefix, k) ==
    IF k > Len(variable_names) THEN [store |-> store, saved_files |-> saved]
    ELSE LET v == variable_names[k]
             output_file == OutputFile(filename_prefix, v)
         IN  IF md[v] = <<>> THEN SaveLoop(store, saved, md, filename_prefix, k + 1)
             ELSE SaveLoop(upload(store, output_file, to_csv(md[v])),
                           Append(saved, output_file), md, filename_prefix, k + 1)

\* registration without the membership test
AppendAlways(prefixes, filename_prefix) == Append(prefixes, filename_prefix)

\* lines 855-856
Register(prefixes, filename_prefix) ==
    IF filename_prefix \in SeqToSet(prefixes) THEN prefixes
    ELSE Append(prefixes, filename_prefix)

update_file_list(n_clicks, start_date, end_date, filename_prefix) ==
    LET args == [op |-> "update_file_list", n_clicks |-> n_clicks,
                 start_date |-> start_date, end_date |-> end_date,
                 filename_prefix |-> filename_prefix]
        csv_files      == list_csv_files(primary_listing)
        selected_files == filter_files_by_date(csv_files, start_date, end_date)
        merged == MergeLoop(primary_data, ResetAccumulator(merged_dataframes),
                            selected_files)
        saved  == SaveLoop(output_store, <<>>, merged.md, filename_prefix, 1)
        registered == Register(filename_prefixes, filename_prefix)
        none == [selected_files |-> <<>>, saved_files |-> <<>>]
    IN
    IF n_clicks = 0 \/ start_date = NoInput \/ end_date = NoInput
          \/ filename_prefix = <<>>
    THEN \* lines 869-871
         /\ call' = args @@ none @@
                [outcome |-> "default",
                 prefix_options |-> extract_prefixes_from_saved_files(output_store)]
         /\ UNCHANGED <<output_store, merged_dataframes, filename_prefixes>>
    ELSE IF start_date = InvalidIso \/ end_date = InvalidIso
    THEN \* lines 820-821
         /\ call' = args @@ none @@ [outcome |-> "invalid date", prefix_options |-> {}]
         /\ UNCHANGED <<output_store, merged_dataframes, filename_prefixes>>
    ELSE IF selected_files = <<>>
    THEN \* lines 827-828
         /\ call' = args @@ none @@ [outcome |-> "no files", prefix_options |-> {}]
         /\ UNCHANGED <<output_store, merged_dataframes, filename_prefixes>>
    ELSE IF merged.raised
    THEN \* the exception leaves the callback after the accumulator was rebound
         /\ merged_dataframes' = merged.md
         /\ call' = args @@ [selected_files |-> selected_files, saved_files |-> <<>>,
                             outcome |-> "raised", prefix_options |-> {}]
         /\ UNCHANGED <<output_store, filename_prefixes>>
    ELSE /\ merged_dataframes' = merged.md
         /\ output_store' = saved.store
         /\ filename_prefixes' = registered
         /\ call' = args @@
                [selected_files |-> selected_files, saved_files |-> saved.saved_files,
                 outcome |-> "saved",
                 prefix_options |-> SeqToSet(registered) \cup
                                    extract_prefixes_from_saved_files(saved.store)]

(***************************************************************************)
(* Numbers of a loaded series.  Values are averaged, so a number is a      *)
(* fraction in lowest terms; NaN is the fraction 0/0.                      *)
(***************************************************************************)
RECURSIVE GCD(_, _)
GCD(a, b) == IF b = 0 THEN a ELSE GCD(b, a % b)

Frac(n, d) == LET g == GCD(n, d) IN [num |-> n \div g, den |-> d \div g]

NaN == [num |-> 0, den |-> 0]

NaT == 0 - 1

RECURSIVE Sum(_)
Sum(s) == IF s = <<>> THEN 0 ELSE Head(s) + Sum(Tail(s))

Min(S) == CHOOSE x \in S : \A y \in S : x <= y

Max(S) == CHOOSE x \in S : \A y \in S : x >= y

(***************************************************************************)
(* remove_outliers (lines 83-94)                                           *)
(***************************************************************************)
VarValueColumn == <<"V","a","r","V","a","l","u","e">>

\* four times Series.quantile(k/4) (linear interpolation between the two
\* closest ranks), so that the result stays an integer
Quantile4(values, k) ==
    LET sorted == SortSeq(values, LAMBDA a, b : a < b)
        h  == k * (Len(values) - 1)
        lo == h \div 4
        r  == h % 4
    IN  sorted[lo + 1] * (4 - r) + (IF r = 0 THEN 0 ELSE sorted[lo + 2] * r)

\* a narrower filter: only the values between the quartiles
WithinQuartiles(v, q1x4, q3x4) == 4 * v >= q1x4 /\ 4 * v <= q3x4

\* Q1 - 1.5*IQR <= v <= Q3 + 1.5*IQR, every term multiplied by 8
WithinFence(v, q1x4, q3x4) ==
    /\ 8 * v >= 2 * q1x4 - 3 * (q3x4 - q1x4)
    /\ 8 * v <= 2 * q3x4 + 3 * (q3x4 - q1x4)

\* the test of line 84: the COLUMN name is looked up in the list of VARIABLE names
SkipsOutlierRemoval(column) == column \in skip_variables

remove_outliers(rows, column) ==
    IF SkipsOutlierRemoval(column) THEN rows
    ELSE IF rows = <<>> THEN rows
    ELSE LET values == [i \in 1..Len(rows) |-> rows[i].VarValue]
             q1x4 == Quantile4(values, 1)
             q3x4 == Quantile4(values, 3)
         IN  SelectSeq(rows, LAMBDA r : WithinFence(r.VarValue, q1x4, q3x4))

(***************************************************************************)
(* The series loader of update_graph (lines 961-992)                       *)
(***************************************************************************)
\* the width of a resampling bucket, '1T', in seconds (line 987)
BucketSeconds == 60

\* pd.to_datetime(text, format='%d-%m-%Y %H:%M:%S', errors='coerce') (line 974)
to_datetime(cell) == IF cell.fmt = "%d-%m-%Y %H:%M:%S" THEN cell.t ELSE NaT

\* pd.read_csv of a merged variable file (line 971)
read_csv(content) == content.rows

Bucket(t) == t \div BucketSeconds

InterpolatedFill(b, lo, hi, vlo, vhi) ==
    Frac(vlo.num * vhi.den * (hi - b) + vhi.num * vlo.den * (b - lo),
         vlo.den * vhi.den * (hi - lo))

\* fillna(method='ffill') for the empty bucket b: the value of the closest
\* earlier bucket lo that has readings (vlo); hi is the next later one (vhi)
FillGap(b, lo, hi, vlo, vhi) == vlo

\* lines 986-987: rows indexed by instant are grouped in one-minute buckets from
\* the first to the last instant (rows without an instant belong to no bucket),
\* each bucket carries the mean of its rows, an empty bucket is filled
resample(rows) ==
    LET timed == SelectSeq(rows, LAMBDA r : r.TimeString # NaT)
        bs    == {Bucket(timed[i].TimeString) : i \in DOMAIN timed}
        first == Min(bs)
        last  == Max(bs)
        \* .mean(): the mean of each column over the rows of a bucket
        mean  == [b \in bs |->
                    LET in == SelectSeq(timed, LAMBDA r : Bucket(r.TimeString) = b)
                    IN  [VarValue    |-> Frac(Sum([i \in 1..Len(in) |-> in[i].VarValue]),
                                              Len(in)),
                         ElapsedTime |-> Frac(Sum([i \in 1..Len(in) |-> in[i].Elapsed]),
                                              BucketSeconds * Len(in))]]
        Value(b) ==
            IF b \in bs THEN mean[b]
            ELSE LET lo == Max({c \in bs : c < b})
                     hi == Min({c \in bs : c > b})
                 IN  [VarValue    |-> FillGap(b, lo, hi, mean[lo].VarValue,
                                              mean[hi].VarValue),
                      ElapsedTime |-> FillGap(b, lo, hi, mean[lo].ElapsedTime,
                                              mean[hi].ElapsedTime)]
    IN  IF timed = <<>> THEN <<>>
        ELSE [i \in 1..(last - first + 1) |->
                 LET value == Value(first + i - 1)
                 IN  [TimeString  |-> (first + i - 1) * BucketSeconds,
                      VarValue    |-> value.VarValue,
                      ElapsedTime |-> value.ElapsedTime]]

\* line 989: the rows as they are
unresampled(rows) ==
    [i \in 1..Len(rows) |->
        [TimeString  |-> rows[i].TimeString,
         VarValue    |-> Frac(rows[i].VarValue, 1),
         ElapsedTime |-> IF rows[i].TimeString = NaT THEN NaN
                         ELSE Frac(rows[i].Elapsed, BucketSeconds)]]

\* line 966: the object name the loader looks up for a dropdown value
LookupFile(var) ==
    LET parts == split1(var, "_") IN parts[1] \o Underscore \o parts[2] \o DotCsv

\* lines 961-992 for one selected dropdown value: the rows added to all_data
LoadSeries(store, var) ==
    LET parts == split1(var, "_")
    IN
    IF Len(parts) < 2 THEN <<>>                        \* ValueError: continue
    ELSE IF LookupFile(var) \notin DOMAIN store THEN <<>>  \* blob.exists() is false
    ELSE
      LET var_name == parts[2]
          df     == read_csv(store[LookupFile(var)])
          times  == [i \in 1..Len(df) |-> to_datetime(df[i].TimeString)]
          timed  == {times[i] : i \in DOMAIN times} \ {NaT}
      IN
      IF timed = {} THEN <<>>                          \* line 975: continue
      ELSE
        LET tmin == Min(timed)
            \* lines 974-978: the instant and the seconds elapsed since the first
            rows == [i \in 1..Len(df) |->
                        [TimeString |-> times[i],
                         VarValue   |-> df[i].VarValue,
                         Elapsed    |-> IF times[i] = NaT THEN 0 ELSE times[i] - tmin]]
            kept == remove_outliers(rows, VarValueColumn)
            df_resampled == IF var_name \notin skip_variables
                            THEN resample(kept) ELSE unresampled(kept)
        IN  [i \in 1..Len(df_resampled) |->
                [TimeString  |-> df_resampled[i].TimeString,
                 VarValue    |-> df_resampled[i].VarValue,
                 ElapsedTime |-> df_resampled[i].ElapsedTime,
                 Variable    |-> var_name]]

\* update_variable_dropdown (lines 878-892): the value offered for a variable of
\* a batch prefix
DropdownValue(prefix, var_name) == prefix \o Underscore \o var_name

update_variable_dropdown(selected_prefixes) ==
    {DropdownValue(p, variable_names[i]) : p \in selected_prefixes,
                                           i \in DOMAIN variable_names}

(***************************************************************************)
(* The manual output bucket: files of manually entered rows.  An object is *)
(* its header (the column names) and its rows; a row gives for each column *)
(* the text of its cell as it stands in the CSV file.                      *)
(***************************************************************************)
FloatColumns == <<"variable_name", "value", "units", "notes", "days_since_inoculation">>

GanttColumns == <<"variable_name", "start_day", "end_day", "category", "notes">>

\* some of the texts pd.read_csv takes for a missing value (its default na_values)
NAValues == {<<>>, <<"n","/","a">>, <<"N","A">>, <<"n","a","n">>, <<"N","a","N">>, <<"n","u","l","l">>}

IsIntText(t) == t # <<>> /\ \A i \in DOMAIN t : t[i] \in Digits

\* the floats of the model are whole numbers, written n.0
IsFloatText(t) ==
    /\ Len(t) >= 3
    /\ SubSeq(t, Len(t) - 1, Len(t)) = <<".", "0">>
    /\ IsIntText(SubSeq(t, 1, Len(t) - 2))

DigitChar(d) == <<"0","1","2","3","4","5","6","7","8","9">>[d + 1]

\* str(n) of an integer
RECURSIVE IntToText(_)
IntToText(n) ==
    IF n < 0 THEN <<"-">> \o IntToText(0 - n)
    ELSE IF n < 10 THEN <<DigitChar(n)>>
    ELSE IntToText(n \div 10) \o <<DigitChar(n % 10)>>

\* the values of a data frame cell
IntValue(n) == [kind |-> "int", n |-> n]

FloatValue(n) == [kind |-> "float", n |-> n]

StrValue(t) == [kind |-> "str", s |-> t]

NaNValue == [kind |-> "nan"]

\* the dtype pd.read_csv infers for a column from the texts of its cells
ColumnDtype(cells) ==
    IF cells # <<>> /\ \A i \in DOMAIN cells : IsIntText(cells[i]) THEN "int64"
    ELSE IF /\ cells # <<>>
            /\ \A i \in DOMAIN cells :
                  IsIntText(cells[i]) \/ IsFloatText(cells[i]) \/ cells[i] \in NAValues
    THEN "float64"
    ELSE "object"

\* the value pd.read_csv gives a cell of a column of that dtype
ParseCell(dtype, t) ==
    IF t \in NAValues THEN NaNValue
    ELSE IF dtype = "int64" THEN IntValue(Number(t))
    ELSE IF dtype = "float64"
    THEN FloatValue(Number(IF IsFloatText(t) THEN SubSeq(t, 1, Len(t) - 2) ELSE t))
    ELSE StrValue(t)

\* the text df.to_csv writes for a value (na_rep is the empty text)
WriteCell(value) ==
    CASE value.kind = "int"   -> IntToText(value.n)
      [] value.kind = "float" -> IntToText(value.n) \o <<".", "0">>
      [] value.kind = "str"   -> value.s
      [] value.kind = "nan"   -> <<>>

\* pd.read_csv(io.StringIO(data)) of a manual file: the rows as values
read_manual_csv(object) ==
    LET dtype == [c \in SeqToSet(object.header) |->
                    ColumnDtype([i \in DOMAIN object.rows |-> object.rows[i][c]])]
    IN  [i \in DOMAIN object.rows |->
            [c \in SeqToSet(object.header) |-> ParseCell(dtype[c], object.rows[i][c])]]

\* df.to_csv(index=False) of a frame with these columns and rows of values
write_manual_csv(columns, rows) ==
    [header |-> columns,
     rows   |-> [i \in DOMAIN rows |->
                    [c \in SeqToSet(columns) |-> WriteCell(rows[i][c])]]]

\* lines 1371-1374: the file of a first row, df_new.to_csv(index=False)
NewContent(columns, new_row) == write_manual_csv(columns, <<new_row>>)

\* an update that keeps nothing of the text downloaded
OnlyNewRow(data, new_row) == write_manual_csv(data.header, <<new_row>>)

\* lines 1377-1381: the text downloaded, parsed, with the new row appended and
\* written back as text
UpdatedContent(data, new_row) ==
    LET df_existing == read_manual_csv(data)
        df_updated  == df_existing \o <<new_row>>
    IN  write_manual_csv(data.header, df_updated)

\* blob.exists() / download / df.append(new_row) / upload of the submit callbacks
\* (lines 1369-1382 and their three copies)
AppendRow(store, filename, columns, new_row) ==
    IF filename \notin DOMAIN store
    THEN upload(store, filename, NewContent(columns, new_row))
    ELSE upload(store, filename, UpdatedContent(store[filename], new_row))

(***************************************************************************)
(* update_graph (lines 946-1165)                                           *)
(***************************************************************************)
\* the characters of the model in code-point order (the order of str comparison)
CodePoints ==
    <<"\t", "\n", " ", "%", "-", ".", "/", "0","1","2","3","4","5","6","7","8","9", ":",
      "A","B","C","D","E","F","G","H","I","J","K","L","M","N","O","P","Q","R","S",
      "T","U","V","W","X","Y","Z", "_",
      "a","b","c","d","e","f","g","h","i","j","k","l","m","n","o","p","q","r","s",
      "t","u","v","w","x","y","z">>

Ord(c) == CHOOSE i \in DOMAIN CodePoints : CodePoints[i] = c

RECURSIVE TextLess(_, _)
TextLess(a, b) ==
    IF b = <<>> THEN FALSE
    ELSE IF a = <<>> THEN TRUE
    ELSE IF Head(a) = Head(b) THEN TextLess(Tail(a), Tail(b))
    ELSE Ord(Head(a)) < Ord(Head(b))

\* sort_values(by=['Variable', 'TimeString']) (line 1068); NaT sorts last
RowLess(r1, r2) ==
    IF r1.Variable = r2.Variable
    THEN r1.TimeString # NaT /\ (r2.TimeString = NaT \/ r1.TimeString < r2.TimeString)
    ELSE TextLess(r1.Variable, r2.Variable)

RECURSIVE LoadAll(_, _)
LoadAll(store, selected_variables) ==
    IF selected_variables = <<>> THEN <<>>
    ELSE LoadSeries(store, Head(selected_variables))
            \o LoadAll(store, Tail(selected_variables))

\* variable_units (lines 223-245); the degree sign is written o
variable_units ==
    [v \in VariableSet |->
        CASE v \in {V_78TT001, V_78TT002, V_10TT002, V_20TTC001} -> "Temperature (oC)"
          [] v = V_20FTC003 -> "Flowrate normal L/min"
          [] v \in {V_78FT001, V_20FTC002} -> "Flowrate m3/h"
          [] v \in {V_20XTC001, V_20XTC002} -> "pH"
          [] v \in {V_20XT004, V_20XTC003} -> "Dissolved oxygen (%)"
          [] v = V_10PT001 -> "Pressure (bar?)"
          [] v \in {V_30P001_DATA_2, V_30P002_DATA_2} -> "Pump state (ON/OFF)"
          [] v = V_30P001_STATUS -> "Pump state (?)"
          [] v \in {V_10R001, V_10R002, V_10R003} -> "Light intensity (%)"
          [] v \in {V_20PT004, V_78PT002, V_78PT001} -> "Pressure (bar)"]

\* variable_unit_map.get(var_name, 'Value') (line 1099)
UnitOf(variable_unit_map, var_name) ==
    IF var_name \in DOMAIN variable_unit_map THEN variable_unit_map[var_name]
    ELSE "Value"

\* a figure that draws every group as a line
AlwaysLine(var_name, new_variables, manual_variables) == "line"

\* lines 1107-1140: the kind of trace of a group
TraceKind(var_name, new_variables, manual_variables) ==
    IF var_name \in SeqToSet(manual_variables) THEN "scatter markers+lines"
    ELSE IF var_name \in SeqToSet(new_variables) THEN "bar opacity 0.5"
    ELSE "line"

\* the keys of all_data.groupby('Variable'), in sorted order (line 1095)
RECURSIVE GroupKeys(_)
GroupKeys(names) ==
    IF names = {} THEN <<>>
    ELSE LET first == CHOOSE x \in names : \A y \in names \ {x} : TextLess(x, y)
         IN  <<first>> \o GroupKeys(names \ {first})

\* an assembler that puts only the second unit on the secondary axis
OnlySecondUnit(index) == index = 2

\* line 1104: secondary_y = yaxes_used[yaxis_title] > 1
OnSecondaryAxis(index) == index > 1

\* lines 1095-1139: one trace per group; yaxes_used numbers the units in the
\* order they are met
RECURSIVE PlotTraces(_, _, _, _, _)
PlotTraces(groups, yaxes_used, variable_unit_map, new_variables, manual_variables) ==
    IF groups = <<>> THEN <<>>
    ELSE LET var_name    == Head(groups)
             yaxis_title == UnitOf(variable_unit_map, var_name)
             used == IF yaxis_title \in DOMAIN yaxes_used THEN yaxes_used
                     ELSE yaxes_used @@
                          (yaxis_title :> Cardinality(DOMAIN yaxes_used) + 1)
         IN  << [Variable    |-> var_name,
                 yaxis_title |-> yaxis_title,
                 secondary_y |-> OnSecondaryAxis(used[yaxis_title]),
                 kind        |-> TraceKind(var_name, new_variables, manual_variables)] >>
             \o PlotTraces(Tail(groups), used, variable_unit_map, new_variables,
                           manual_variables)

\* lines 1091-1139 on the sorted frame
PlotFigure(all_data, variable_unit_map, new_variables, manual_variables) ==
    PlotTraces(GroupKeys({all_data[i].Variable : i \in DOMAIN all_data}), << >>,
               variable_unit_map, new_variables, manual_variables)

\* instants are counted in seconds from start_date, 2023-12-11 00:00:00 (lines
\* 30-31); a day has this many
SecondsPerDay == 86400

TableProtein == <<"T","a","b","l","e","1",":"," ","%"," ","P","R","O","T","E","I","N">>

TableSodium == <<"T","a","b","l","e","2",":"," ","S","o","d","i","u","m">>

TableLead == <<"T","a","b","l","e","2",":"," ","L","e","a","d">>

\* the offline analytics tables (lines 139-176): the rows of the result file,
\* DateTime from the sample day (lines 144-161); a cell that is not a number is NaN
table1 ==
    << [DateTime |-> 0, value |-> Frac(40, 1), sample |-> "S1"],
       [DateTime |-> 2 * SecondsPerDay, value |-> Frac(44, 1), sample |-> "S2"] >>

table2 ==
    << [DateTime |-> SecondsPerDay, value |-> Frac(7, 1), sample |-> "S1"] >>

\* column_mapping (lines 191-195): the numeric columns of the two tables
column_mapping == (TableProtein :> table1) @@ (TableSodium :> table2)

\* new_variable_units (lines 273-301), the entries of the names of the model
new_variable_units == (TableProtein :> "%") @@ (TableSodium :> "mg/kg") @@ (TableLead :> "mg/kg")

\* lines 995-1015 for one offline name: the rows added to all_data
LoadOffline(display_name) ==
    IF display_name \notin DOMAIN column_mapping THEN <<>>
    ELSE LET df_var == SelectSeq(column_mapping[display_name],
                                 LAMBDA r : r.DateTime # NaT)
             times  == {df_var[i].DateTime : i \in DOMAIN df_var}
         IN  [i \in DOMAIN df_var |->
                [TimeString  |-> df_var[i].DateTime,
                 VarValue    |-> df_var[i].value,
                 ElapsedTime |-> Frac(df_var[i].DateTime - Min(times), BucketSeconds),
                 Variable    |-> display_name]]

\* lines 1031-1038: the manual files the loader reads
ManualReadable(store, manual_var) ==
    /\ (manual_var \o DotCsv) \in DOMAIN store
    /\ {"variable_name", "value", "units", "days_since_inoculation"}
          \subseteq SeqToSet(store[manual_var \o DotCsv].header)
    /\ ~ endswith(manual_var, <<"_","b","i","n","a","r","y">>)
    /\ ~ endswith(manual_var, <<"_","s","t","r","i","n","g">>)

\* lines 1022-1064 for one manual name: the rows added to all_data; a cell of
\* days_since_inoculation or value that is not a number raises, and the except
\* clause skips the variable
LoadManual(store, manual_var) ==
    IF ~ ManualReadable(store, manual_var) THEN <<>>
    ELSE LET df_manual == read_manual_csv(store[manual_var \o DotCsv])
         IN  IF \E i \in DOMAIN df_manual :
                   \/ df_manual[i]["days_since_inoculation"].kind \notin {"int", "float"}
                   \/ df_manual[i]["value"].kind \notin {"int", "float"}
             THEN <<>>
             ELSE LET DateTime(i) ==
                          SecondsPerDay * df_manual[i]["days_since_inoculation"].n
                      times == {DateTime(i) : i \in DOMAIN df_manual}
                  IN  [i \in DOMAIN df_manual |->
                         [TimeString  |-> DateTime(i),
                          VarValue    |-> Frac(df_manual[i]["value"].n, 1),
                          ElapsedTime |-> Frac(DateTime(i) - Min(times), BucketSeconds),
                          Variable    |-> manual_var]]

\* the text of a units cell as an axis title
UnitTitle(value) ==
    CASE value = StrValue(<<"L">>) -> "L"
      [] value = StrValue(<<"%">>) -> "%"
      [] OTHER -> "Value"

\* line 1056: the unit of a manual variable, that of its first row
ManualUnit(store, manual_var) ==
    LET df_manual == read_manual_csv(store[manual_var \o DotCsv])
    IN  IF \A i \in DOMAIN df_manual : df_manual[i]["units"].kind = "nan"
        THEN "Value" ELSE UnitTitle(df_manual[1]["units"])

RECURSIVE LoadEach(_, _)
LoadEach(Load(_), names) ==
    IF names = <<>> THEN <<>> ELSE Load(Head(names)) \o LoadEach(Load, Tail(names))

\* lines 958, 1019 and 1056: the units of the process variables, overridden by
\* those of the offline and then of the manual variables that were loaded
UnitMap(store, new_variables, manual_variables) ==
    [n \in {m \in SeqToSet(manual_variables) :
               ManualReadable(store, m) /\ LoadManual(store, m) # <<>>}
        |-> ManualUnit(store, n)]
    @@ [n \in SeqToSet(new_variables) \cap DOMAIN column_mapping |-> new_variable_units[n]]
    @@ variable_units

\* the columns of an export row
ExportRow(row, time_mode) ==
    IF time_mode = "absolute"
    THEN [Time |-> row.TimeString, Variable |-> row.Variable, VarValue |-> row.VarValue]
    ELSE [ElapsedMinutes |-> row.ElapsedTime, Variable |-> row.Variable,
          VarValue |-> row.VarValue]

\* an export of every row of the figure
ExportEverything(all_data, selected_variables, time_mode) ==
    [i \in DOMAIN all_data |-> ExportRow(all_data[i], time_mode)]

\* lines 1080-1088: the rows kept for export and their columns
ExportData(all_data, selected_variables, time_mode) ==
    LET names == {split1(selected_variables[i], "_")[2] : i \in DOMAIN selected_variables}
        rows  == SelectSeq(all_data, LAMBDA r : r.Variable \in names)
    IN  [i \in 1..Len(rows) |-> ExportRow(rows[i], time_mode)]

\* download_graph_data (lines 1174-1192): the stored records as a CSV file, the
\* time column first; nothing without a click or without records
download_graph_data(n_clicks, graph_data) ==
    call' = [op |-> "download_graph_data", n_clicks |-> n_clicks,
             graph_data |-> graph_data] @@
            IF n_clicks = 0 \/ graph_data = <<>>
            THEN [outcome |-> "no update", header |-> <<>>, rows |-> <<>>]
            ELSE [outcome |-> "file",
                  header  |-> IF "Time" \in DOMAIN graph_data[1]
                              THEN <<"Time", "Variable", "VarValue">>
                              ELSE <<"Elapsed Time (minutes)", "Variable", "VarValue">>,
                  rows    |-> graph_data]

update_graph(selected_variables, new_variables, manual_variables, time_mode) ==
    LET args == [op |-> "update_graph", selected_variables |-> selected_variables,
                 new_variables |-> new_variables,
                 manual_variables |-> manual_variables, time_mode |-> time_mode]
        loaded == LoadAll(output_store, selected_variables)
                    \o LoadEach(LoadOffline, new_variables)
                    \o LoadEach(LAMBDA m : LoadManual(manual_store, m), manual_variables)
        all_data == SortSeq(loaded, RowLess)
    IN  /\ call' = args @@
            IF selected_variables = <<>> /\ new_variables = <<>> /\ manual_variables = <<>>
            THEN [outcome |-> "please select", all_data |-> <<>>, export |-> <<>>,
                  traces |-> <<>>]
            ELSE IF all_data = <<>>
            THEN [outcome |-> "no data", all_data |-> <<>>, export |-> <<>>,
                  traces |-> <<>>]
            ELSE [outcome |-> "figure", all_data |-> all_data,
                  export |-> ExportData(all_data, selected_variables, time_mode),
                  traces |-> PlotFigure(all_data,
                                        UnitMap(manual_store, new_variables,
                                                manual_variables),
                                        new_variables, manual_variables)]
        /\ UNCHANGED <<output_store, merged_dataframes, filename_prefixes>>

(***************************************************************************)
(* The inputs of the model                                                 *)
(***************************************************************************)
\* the listings the model starts from: list_blobs returns names in name order
Listings ==
    { <<FileJan10, FileJan15, FileJan20, FileNotes, FileReadme, FileDocumented>>,
      <<FileJan10, FileJan15, FileNotes, FileDocumented>> }

Jan01 == 20240101

Jan10 == 20240110

Jan15 == 20240115

Jan31 == 20240131

Feb01 == 20240201

Feb28 == 20240228

PrefixB1 == <<"B","1">>

PrefixRun1 == <<"R","u","n","_","1">>

\* the inputs of update_file_list the model draws from: start and end date
DateRanges ==
    { <<NoInput, Jan31>>, <<InvalidIso, Jan31>>, <<Feb01, Feb28>>,
      <<Jan10, Jan10>>, <<Jan15, Jan15>>, <<Jan10, Jan15>>, <<Jan01, Jan31>> }

Prefixes == {PrefixB1, PrefixRun1}

\* n_clicks, start_date, end_date, filename_prefix
FileListInputs ==
    { <<0, Jan10, Jan15, PrefixB1>>, <<1, Jan10, Jan15, <<>> >> }
    \cup {<<1, r[1], r[2], p>> : r \in DateRanges, p \in Prefixes}

\* the variables the model selects for display
GraphVariables == {V_78TT001, V_10R001, V_30P001_DATA_2}

MaxSelected == 2

\* the values of a multi-select dropdown: distinct options, in the order chosen
SeqsUpTo(S, n) ==
    {s \in UNION {[1..k -> S] : k \in 0..n} : \A i, j \in DOMAIN s : i # j => s[i] # s[j]}

KnownPrefixes == SeqToSet(filename_prefixes) \cup extract_prefixes_from_saved_files(output_store)

(***************************************************************************)
(* Serialized requests: one callback runs to completion at a time          *)
(***************************************************************************)
Idle == [op |-> "none"]

Init ==
    /\ primary_listing \in Listings
    /\ output_store = << >>
    /\ merged_dataframes = [v \in VariableSet |-> <<>>]
    /\ filename_prefixes = <<>>
    /\ call = Idle
    /\ req = << >>
    /\ manual_store = << >>

\* one UI interaction triggers one synchronous callback; its outputs are
\* delivered to the page before the next interaction is served
UpdateFileList ==
    /\ call = Idle
    /\ \E in \in FileListInputs : update_file_list(in[1], in[2], in[3], in[4])
    /\ UNCHANGED <<manual_store, primary_listing, req>>

UpdateGraph ==
    /\ call = Idle
    /\ \E selected_variables \in
             SeqsUpTo({DropdownValue(p, v) : p \in KnownPrefixes, v \in GraphVariables},
                      MaxSelected),
          time_mode \in {"absolute", "elapsed"} :
          update_graph(selected_variables, <<>>, <<>>, time_mode)
    /\ UNCHANGED <<manual_store, primary_listing, req>>

Respond ==
    /\ call # Idle
    /\ call' = Idle
    /\ UNCHANGED <<manual_store, primary_listing, output_store, merged_dataframes,
                   filename_prefixes, req>>

Next == UpdateFileList \/ UpdateGraph \/ Respond

Spec == Init /\ [][Next]_vars

(***************************************************************************)
(* The pure functions on their own: each action applies one function to    *)
(* inputs drawn from bounded sets and records the arguments and the result *)
(***************************************************************************)
NameThirdTokenCsv == <<"a","_","b","_","2","0","2","4","0","1","1","5">> \o DotCsv

NameShortDate == <<"a","_","b","_","2","0","2","4","1","1","5","_","c">> \o DotCsv

NameFeb30 == <<"a","_","b","_","2","0","2","4","0","2","3","0","_","c">> \o DotCsv

NameJan31 == <<"a","_","b","_","2","0","2","4","0","1","3","1","_","c">> \o DotCsv

NameJan01 == <<"a","_","b","_","2","0","2","4","0","1","0","1","_","c">> \o DotCsv

NameFeb01 == <<"a","_","b","_","2","0","2","4","0","2","0","1","_","c">> \o DotCsv

NameEmptyToken == <<"a","_","_","2","0","2","4","0","1","1","5","_","c">> \o DotCsv

NameFourthToken == <<"a","_","b","_","c","_","2","0","2","4","0","1","1","5">> \o DotCsv

FilterNames ==
    {FileJan10, FileJan15, FileDocumented, FileNotes, NameThirdTokenCsv, NameShortDate,
     NameFeb30, NameJan31, NameJan01, NameFeb01, NameEmptyToken, NameFourthToken}

Dec31 == 20241231

FilterRanges ==
    { <<Jan01, Jan31>>, <<Feb01, Feb28>>, <<Jan15, Jan15>>, <<Jan31, Jan01>>,
      <<Jan01, Dec31>> }

MaxFiles == 2

FilterFilesByDate ==
    /\ call = Idle
    /\ \E files \in SeqsUpTo(FilterNames, MaxFiles), range \in FilterRanges :
          call' = [op |-> "filter_files_by_date", files |-> files,
                   start_date |-> range[1], end_date |-> range[2],
                   result |-> filter_files_by_date(files, range[1], range[2])]
    /\ UNCHANGED <<manual_store, primary_listing, output_store, merged_dataframes,
                   filename_prefixes, req>>

NameSlash == <<"A","/","B"," ","C">>

SanitizeAlphabet == {"A", "b", "1", "/", ".", " ", "_", "-", "\t"}

MaxLen == 3

SanitizeFilename ==
    /\ call = Idle
    /\ \E filename \in UNION {[1..k -> SanitizeAlphabet] : k \in 0..MaxLen}
                       \cup {NameSlash} \cup VariableSet :
          call' = [op |-> "sanitize_filename", filename |-> filename,
                   result |-> sanitize_filename(filename)]
    /\ UNCHANGED <<manual_store, primary_listing, output_store, merged_dataframes,
                   filename_prefixes, req>>

OutlierValues == {1, 2, 3, 4, 100}

MaxReadings == 5

RemoveOutliers ==
    /\ call = Idle
    /\ \E values \in UNION {[1..k -> OutlierValues] : k \in 0..MaxReadings} :
          LET rows == [i \in 1..Len(values) |-> [row |-> i, VarValue |-> values[i]]]
          IN  call' = [op |-> "remove_outliers", rows |-> rows,
                       result |-> remove_outliers(rows, VarValueColumn)]
    /\ UNCHANGED <<manual_store, primary_listing, output_store, merged_dataframes,
                   filename_prefixes, req>>

\* a variable name the loader derives from a prefix with an underscore: it has
\* no unit of its own
NameRun1Variable == <<"1", "_">> \o V_78TT001

PlotVariables ==
    {V_78TT001, V_10R001, V_20XTC001, V_20XTC002, V_10PT001, NameRun1Variable}

MaxPlotted == 4

\* the plot assembler of update_graph on the variables of an all_data frame
PlotAssembler ==
    /\ call = Idle
    /\ \E names \in {S \in SUBSET PlotVariables : S # {} /\ Cardinality(S) <= MaxPlotted} :
          call' = [op |-> "plot_assembler", variables |-> names,
                   traces |-> PlotTraces(GroupKeys(names), << >>, variable_units,
                                         <<>>, <<>>)]
    /\ UNCHANGED <<manual_store, primary_listing, output_store, merged_dataframes,
                   filename_prefixes, req>>

InitFunctions ==
    /\ primary_listing = <<>>
    /\ output_store = << >>
    /\ merged_dataframes = [v \in VariableSet |-> <<>>]
    /\ filename_prefixes = <<>>
    /\ call = Idle
    /\ req = << >>
    /\ manual_store = << >>

NextFunctions ==
    FilterFilesByDate \/ SanitizeFilename \/ RemoveOutliers \/ PlotAssembler \/ Respond

SpecFunctions == InitFunctions /\ [][NextFunctions]_vars

(***************************************************************************)
(* Concurrent requests: the development server handles each request in a   *)
(* thread of its own, so two update_file_list callbacks may interleave.    *)
(* A callback is cut where it waits for object storage: after the listing  *)
(* (lines 824-825), at the rebinding of the accumulator (line 832), once   *)
(* per downloaded file (lines 835-839), once per variable of the save loop *)
(* (lines 842-852) and at the registration of the prefix (lines 855-856).  *)
(* The two requests are a subset of the interleavings of the program.      *)
(***************************************************************************)
Requests == {1, 2}

\* the date ranges and prefixes the concurrent requests draw from
ConcurrentInputs ==
    {<<r[1], r[2], p>> : r \in { <<Jan10, Jan10>>, <<Jan10, Jan15>>, <<Jan01, Jan31>>,
                                  <<Feb01, Feb28>> },
                         p \in Prefixes}

\* the locals of one running callback; items is the dictionary the save loop
\* iterates: the one the global name is bound to (shared), or the one it was
\* bound to when the loop started and that nothing writes any more (md).
\* uploaded and disturbed record the history: what this request uploaded, and
\* whether another request rebound or wrote the accumulator while this one was
\* between its own rebinding and the end of its save loop
NewRequest ==
    [pc |-> "idle", start_date |-> NoInput, end_date |-> NoInput,
     filename_prefix |-> <<>>, selected_files |-> <<>>, file |-> 1,
     items |-> [shared |-> TRUE], k |-> 1, saved_files |-> <<>>,
     uploaded |-> << >>, disturbed |-> FALSE]

InAccumulatorWindow(r) == r.pc \in {"file", "save"}

\* what a step of request i that rebinds or writes the accumulator does to the
\* history of the others
Disturb(rq, i) ==
    [j \in DOMAIN rq |->
        IF j # i /\ InAccumulatorWindow(rq[j])
        THEN [rq[j] EXCEPT !.disturbed = TRUE] ELSE rq[j]]

\* lines 816-828 of a request with all inputs present
StartRequest(i) ==
    /\ req[i].pc = "idle"
    /\ \E in \in ConcurrentInputs :
          LET csv_files      == list_csv_files(primary_listing)
              selected_files == filter_files_by_date(csv_files, in[1], in[2])
          IN  req' = [req EXCEPT ![i] =
                         [@ EXCEPT !.start_date = in[1], !.end_date = in[2],
                                   !.filename_prefix = in[3],
                                   !.selected_files = selected_files,
                                   !.pc = IF selected_files = <<>> THEN "no files"
                                          ELSE "reset"]]
    /\ UNCHANGED <<manual_store, primary_listing, output_store, merged_dataframes,
                   filename_prefixes, call>>

\* line 832: the global name is bound to a new dictionary; a save loop of another
\* request goes on iterating the dictionary it started with
RebindAccumulator(i) ==
    /\ req[i].pc = "reset"
    /\ merged_dataframes' = ResetAccumulator(merged_dataframes)
    /\ req' = [j \in DOMAIN req |->
                 IF j = i THEN [req[i] EXCEPT !.pc = "file", !.file = 1]
                 ELSE LET r == Disturb(req, i)[j]
                      IN  IF r.pc = "save" /\ r.items.shared
                          THEN [r EXCEPT !.items = [shared |-> FALSE,
                                                    md |-> merged_dataframes]]
                          ELSE r]
    /\ UNCHANGED <<manual_store, primary_listing, output_store, filename_prefixes, call>>

\* lines 835-839 for the next selected file: its rows are appended to the
\* dictionary the global name is bound to NOW; after the last file the save loop
\* starts on that dictionary (line 842)
ProcessFile(i) ==
    /\ req[i].pc = "file"
    /\ LET file == primary_data[req[i].selected_files[req[i].file]]
           last == req[i].file = Len(req[i].selected_files)
       IN  IF ProcessRaises(file)
           THEN /\ req' = [req EXCEPT ![i] = [@ EXCEPT !.pc = "raised"]]
                /\ UNCHANGED merged_dataframes
           ELSE /\ merged_dataframes' =
                      Accumulate(merged_dataframes, process_csv_file(file))
                /\ req' = [Disturb(req, i) EXCEPT ![i] =
                             [@ EXCEPT !.file = @ + 1,
                                       !.pc = IF last THEN "save" ELSE "file",
                                       !.k = 1,
                                       !.items = [shared |-> TRUE]]]
    /\ UNCHANGED <<manual_store, primary_listing, output_store, filename_prefixes, call>>

\* lines 842-852 up to the next upload: the iteration passes the variables whose
\* frame is empty and uploads the first frame that is not; when there is none
\* left the loop ends
SaveVariable(i) ==
    /\ req[i].pc = "save"
    /\ LET items == IF req[i].items.shared THEN merged_dataframes ELSE req[i].items.md
           left  == {k \in req[i].k..Len(variable_names) : items[variable_names[k]] # <<>>}
       IN  IF left = {}
           THEN /\ req' = [req EXCEPT ![i] =
                             [@ EXCEPT !.k = Len(variable_names) + 1, !.pc = "register"]]
                /\ UNCHANGED output_store
           ELSE LET k  == Min(left)
                    df == items[variable_names[k]]
                    output_file == OutputFile(req[i].filename_prefix, variable_names[k])
                IN  /\ output_store' = upload(output_store, output_file, to_csv(df))
                    /\ req' = [req EXCEPT ![i] =
                                 [@ EXCEPT !.k = k + 1,
                                           !.saved_files = Append(@, output_file),
                                           !.uploaded = upload(@, output_file, df)]]
    /\ UNCHANGED <<manual_store, primary_listing, merged_dataframes, filename_prefixes, call>>

\* lines 855-867
RegisterPrefix(i) ==
    /\ req[i].pc = "register"
    /\ filename_prefixes' = Register(filename_prefixes, req[i].filename_prefix)
    /\ req' = [req EXCEPT ![i] = [@ EXCEPT !.pc = "saved"]]
    /\ UNCHANGED <<manual_store, primary_listing, output_store, merged_dataframes, call>>

Start == \E i \in Requests : StartRequest(i)

Rebind == \E i \in Requests : RebindAccumulator(i)

Process == \E i \in Requests : ProcessFile(i)

Save == \E i \in Requests : SaveVariable(i)

RegisterStep == \E i \in Requests : RegisterPrefix(i)

InitConc ==
    /\ primary_listing \in Listings
    /\ output_store = << >>
    /\ merged_dataframes = [v \in VariableSet |-> <<>>]
    /\ filename_prefixes = <<>>
    /\ call = Idle
    /\ req = [i \in Requests |-> NewRequest]
    /\ manual_store = << >>

NextConc == Start \/ Rebind \/ Process \/ Save \/ RegisterStep

SpecConc == InitConc /\ [][NextConc]_vars

(***************************************************************************)
(* Dates of the manual forms                                               *)
(***************************************************************************)
\* the calendar date of the ten characters YYYY-MM-DD, NoDate when the text is
\* not of that shape or names no day of the calendar
DashDate(t) ==
    IF /\ Len(t) = 10
       /\ \A i \in {1, 2, 3, 4, 6, 7, 9, 10} : t[i] \in Digits
       /\ t[5] = "-" /\ t[8] = "-"
    THEN LET y == Number(SubSeq(t, 1, 4))
             m == Number(SubSeq(t, 6, 7))
             d == Number(SubSeq(t, 9, 10))
         IN  IF y >= 1 /\ m \in 1..12 /\ d \in 1..DaysInMonth(y, m)
             THEN 10000 * y + 100 * m + d ELSE NoDate
    ELSE NoDate

\* the seconds into the day of the eight characters HH:MM:SS, NoDate otherwise
ClockSeconds(t) ==
    IF /\ Len(t) = 8
       /\ \A i \in {1, 2, 4, 5, 7, 8} : t[i] \in Digits
       /\ t[3] = ":" /\ t[6] = ":"
       /\ Number(SubSeq(t, 1, 2)) < 24
       /\ Number(SubSeq(t, 4, 5)) < 60
       /\ Number(SubSeq(t, 7, 8)) < 60
    THEN 3600 * Number(SubSeq(t, 1, 2)) + 60 * Number(SubSeq(t, 4, 5))
            + Number(SubSeq(t, 7, 8))
    ELSE NoDate

\* datetime.fromisoformat(text): YYYY-MM-DD, or YYYY-MM-DD, one separator
\* character and HH:MM:SS; any other text of the model (a trailing Z among them)
\* raises ValueError.  The datetime is its date and its seconds into the day.
fromisoformat(t) ==
    IF Len(t) < 10 \/ DashDate(SubSeq(t, 1, 10)) = NoDate THEN [valid |-> FALSE]
    ELSE IF Len(t) = 10 THEN [valid |-> TRUE, date |-> DashDate(t), seconds |-> 0]
    ELSE IF ClockSeconds(Drop(t, 12)) = NoDate THEN [valid |-> FALSE]
    ELSE [valid |-> TRUE, date |-> DashDate(SubSeq(t, 1, 10)),
          seconds |-> ClockSeconds(Drop(t, 12))]

(***************************************************************************)
(* create_variable (lines 1288-1327)                                       *)
(***************************************************************************)
KindFloat == <<"f","l","o","a","t">>

KindPercentage == <<"p","e","r","c","e","n","t","a","g","e">>

KindString == <<"s","t","r","i","n","g">>

KindBinary == <<"b","i","n","a","r","y">>

\* f"{sanitized_name}_{data_type}.csv"
ManualFile(name, data_type) ==
    sanitize_filename(name) \o Underscore \o data_type \o DotCsv

\* a template with the columns of the float files whatever the kind
AlwaysFloatColumns(data_type) == FloatColumns

TemplateColumns(data_type) ==
    IF data_type \in {KindFloat, KindPercentage} THEN FloatColumns ELSE GanttColumns

create_variable(n_clicks, variable_name, data_type) ==
    LET args == [op |-> "create_variable", n_clicks |-> n_clicks,
                 variable_name |-> variable_name, data_type |-> data_type]
        filename == ManualFile(variable_name, data_type)
    IN
    IF n_clicks = 0
    THEN /\ call' = args @@ [outcome |-> "none"]
         /\ UNCHANGED manual_store
    ELSE IF variable_name = <<>> \/ data_type = <<>>
    THEN /\ call' = args @@ [outcome |-> "missing input"]
         /\ UNCHANGED manual_store
    ELSE IF data_type \notin {KindFloat, KindPercentage, KindString, KindBinary}
    THEN /\ call' = args @@ [outcome |-> "invalid type"]
         /\ UNCHANGED manual_store
    ELSE IF filename \in DOMAIN manual_store
    THEN /\ call' = args @@ [outcome |-> "exists", filename |-> filename]
         /\ UNCHANGED manual_store
    ELSE /\ call' = args @@ [outcome |-> "created", filename |-> filename]
         /\ manual_store' = upload(manual_store, filename,
                                   write_manual_csv(TemplateColumns(data_type), <<>>))

(***************************************************************************)
(* The submit callbacks (lines 1343-1562).  A number input is absent       *)
(* (None) or holds a number; a text input or dropdown is absent or empty   *)
(* (both false in Python) or holds a text.                                 *)
(***************************************************************************)
None == [given |-> FALSE]

Num(n) == [given |-> TRUE, n |-> n]

\* a test that takes the number 0 for an absent input
IsTruthy(number) == number.given /\ number.n # 0

\* value is not None (lines 1346 and 1402)
IsNotNone(number) == number.given

\* a form that lets every percentage through
AnyPercent(n) == TRUE

\* 0 <= value <= 100 (line 1407)
InPercentRange(n) == 0 <= n /\ n <= 100

\* submit_float_data (lines 1343-1386)
submit_float_data(n_clicks, variable, value, units, days, notes) ==
    LET args == [op |-> "submit_float_data", n_clicks |-> n_clicks,
                 variable |-> variable, value |-> value, units |-> units,
                 days |-> days, notes |-> notes]
        filename == ManualFile(variable, KindFloat)
    IN
    IF n_clicks = 0
    THEN /\ call' = args @@ [outcome |-> "none"]
         /\ UNCHANGED manual_store
    ELSE IF variable = <<>> \/ ~ IsNotNone(value) \/ units = <<>> \/ ~ IsNotNone(days)
    THEN /\ call' = args @@ [outcome |-> "missing input"]
         /\ UNCHANGED manual_store
    ELSE /\ call' = args @@ [outcome |-> "submitted", filename |-> filename]
         /\ manual_store' =
              AppendRow(manual_store, filename, FloatColumns,
                        [variable_name |-> StrValue(variable),
                         value |-> FloatValue(value.n),
                         units |-> StrValue(units),
                         notes |-> StrValue(notes),
                         days_since_inoculation |-> IntValue(days.n)])

\* submit_percentage_data (lines 1399-1444)
submit_percentage_data(n_clicks, variable, value, days, notes) ==
    LET args == [op |-> "submit_percentage_data", n_clicks |-> n_clicks,
                 variable |-> variable, value |-> value, days |-> days,
                 notes |-> notes]
        filename == ManualFile(variable, KindPercentage)
    IN
    IF n_clicks = 0
    THEN /\ call' = args @@ [outcome |-> "none"]
         /\ UNCHANGED manual_store
    ELSE IF variable = <<>> \/ ~ IsNotNone(value) \/ ~ IsNotNone(days)
    THEN /\ call' = args @@ [outcome |-> "missing input"]
         /\ UNCHANGED manual_store
    ELSE IF ~ InPercentRange(value.n)
    THEN /\ call' = args @@ [outcome |-> "out of range"]
         /\ UNCHANGED manual_store
    ELSE /\ call' = args @@ [outcome |-> "submitted", filename |-> filename]
         /\ manual_store' =
              AppendRow(manual_store, filename, FloatColumns,
                        [variable_name |-> StrValue(variable),
                         value |-> FloatValue(value.n),
                         units |-> StrValue(<<"%">>),
                         notes |-> StrValue(notes),
                         days_since_inoculation |-> IntValue(days.n)])

\* a form that lets every pair of days through
NeverAfter(start, end) == FALSE

\* the test of lines 1467 and 1526: start_date_var > end_date_var
StartAfterEnd(start, end) ==
    \/ start.date > end.date
    \/ start.date = end.date /\ start.seconds > end.seconds

\* submit_string_data (lines 1458-1503) and submit_binary_data (lines 1517-1562):
\* the same body, the suffix of the file aside
submit_interval_data(op, data_type, n_clicks, variable, start_day, end_day, category, notes) ==
    LET args == [op |-> op, n_clicks |-> n_clicks, variable |-> variable,
                 start_day |-> start_day, end_day |-> end_day,
                 category |-> category, notes |-> notes]
        filename == ManualFile(variable, data_type)
    IN
    IF n_clicks = 0
    THEN /\ call' = args @@ [outcome |-> "none"]
         /\ UNCHANGED manual_store
    ELSE IF variable = <<>> \/ start_day = <<>> \/ end_day = <<>> \/ category = <<>>
    THEN /\ call' = args @@ [outcome |-> "missing input"]
         /\ UNCHANGED manual_store
    ELSE IF ~ fromisoformat(start_day).valid \/ ~ fromisoformat(end_day).valid
    THEN /\ call' = args @@ [outcome |-> "invalid dates"]
         /\ UNCHANGED manual_store
    ELSE IF StartAfterEnd(fromisoformat(start_day), fromisoformat(end_day))
    THEN /\ call' = args @@ [outcome |-> "start after end"]
         /\ UNCHANGED manual_store
    ELSE /\ call' = args @@ [outcome |-> "submitted", filename |-> filename]
         /\ manual_store' =
              AppendRow(manual_store, filename, GanttColumns,
                        [variable_name |-> StrValue(variable),
                         start_day |-> StrValue(start_day),
                         end_day |-> StrValue(end_day),
                         category |-> StrValue(category),
                         notes |-> StrValue(notes)])

submit_string_data(n_clicks, variable, start_day, end_day, category, notes) ==
    submit_interval_data("submit_string_data", KindString, n_clicks, variable,
                         start_day, end_day, category, notes)

submit_binary_data(n_clicks, variable, start_day, end_day, category, notes) ==
    submit_interval_data("submit_binary_data", KindBinary, n_clicks, variable,
                         start_day, end_day, category, notes)

(***************************************************************************)
(* update_gantt_chart (lines 1216-1278)                                    *)
(***************************************************************************)
\* list_gantt_manual_variables (lines 107-118): the names of the _binary.csv and
\* _string.csv objects without their last 11 characters
list_gantt_manual_variables(store) ==
    {SubSeq(n, 1, Len(n) - 11) :
        n \in {m \in DOMAIN store :
                 \/ endswith(m, Underscore \o KindBinary \o DotCsv)
                 \/ endswith(m, Underscore \o KindString \o DotCsv)}}

\* get_variables_by_type (lines 63-70): the names of the files of one kind
\* without the suffix _<kind>.csv
get_variables_by_type(store, data_type) ==
    LET suffix == Underscore \o data_type \o DotCsv
    IN {SubSeq(f, 1, Len(f) - Len(suffix)) :
           f \in {m \in DOMAIN store : endswith(m, suffix)}}

\* str(value) of a cell value
Str(value) == IF value.kind = "nan" THEN <<"n","a","n">> ELSE WriteCell(value)

\* a chart that parses the whole text of a day
WholeText(t) == t

\* a chart that reads a file whatever its columns
AnyColumns(header) == TRUE

\* lines 1231-1232: required_cols.issubset(df.columns)
HasRequiredColumns(header) == SeqToSet(GanttColumns) \subseteq SeqToSet(header)

\* str(...)[:10] (lines 1237-1238)
FirstTen(t) == IF Len(t) <= 10 THEN t ELSE SubSeq(t, 1, 10)

\* lines 1230-1247 for one file: an entry per row, none when the file does not
\* exist or lacks a required column
GanttEntries(store, var, data_type) ==
    LET file_path == var \o Underscore \o data_type \o DotCsv
    IN  IF file_path \notin DOMAIN store THEN <<>>
        ELSE IF ~ HasRequiredColumns(store[file_path].header)
        THEN <<>>
        ELSE LET df == read_manual_csv(store[file_path])
             IN  [i \in DOMAIN df |->
                    [Variable |-> var,
                     Category |-> df[i]["category"],
                     Start    |-> FirstTen(Str(df[i]["start_day"])),
                     Finish   |-> FirstTen(Str(df[i]["end_day"]))]]

RECURSIVE AllEntries(_, _)
AllEntries(store, selected_vars) ==
    IF selected_vars = <<>> THEN <<>>
    ELSE GanttEntries(store, Head(selected_vars), KindBinary)
            \o GanttEntries(store, Head(selected_vars), KindString)
            \o AllEntries(store, Tail(selected_vars))

update_gantt_chart(selected_vars) ==
    LET all_entries == AllEntries(manual_store, selected_vars)
        \* lines 1255-1259: pd.to_datetime(format='%Y-%m-%d', errors='coerce')
        \* and dropna
        parsed   == [i \in DOMAIN all_entries |->
                        [Variable |-> all_entries[i].Variable,
                         Category |-> all_entries[i].Category,
                         Start    |-> DashDate(all_entries[i].Start),
                         Finish   |-> DashDate(all_entries[i].Finish)]]
        gantt_df == SelectSeq(parsed, LAMBDA e : e.Start # NoDate /\ e.Finish # NoDate)
    IN  /\ call' = [op |-> "update_gantt_chart", selected_vars |-> selected_vars,
                    outcome |-> IF gantt_df = <<>> THEN "empty figure" ELSE "figure",
                    entries |-> gantt_df]
        /\ UNCHANGED manual_store

(***************************************************************************)
(* Manual entry, serialized: the inputs of the model and its actions       *)
(***************************************************************************)
VarPH == <<"p","H">>

VarAB == <<"A","/","B">>

VarA_B == <<"A","_","B">>

VarColour == <<"C","o","l","o","u","r">>

UnitsL == <<"L">>

NotesNA == <<"n","/","a">>

Notes007 == <<"0","0","7">>

Day05 == <<"2","0","2","4","-","0","1","-","0","5">>

Day06 == <<"2","0","2","4","-","0","1","-","0","6">>

\* the date a picker holds before the user picks one: datetime.today() (line 608)
DayDefault == <<"2","0","2","4","-","0","1","-","0","5","T","1","3",":","4","5",":","1","2">>

DayZ05 == <<"2","0","2","4","-","0","1","-","0","5","T","0","0",":","0","0",":","0","0","Z">>

DayZ06 == <<"2","0","2","4","-","0","1","-","0","6","T","0","0",":","0","0",":","0","0","Z">>

DaySlashes == <<"0","5","/","0","1","/","2","0","2","4">>

CatGreen == <<"g","r","e","e","n">>

CatYes == <<"y","e","s">>

KindBogus == <<"b","o","g","u","s">>

\* a bucket that holds a file written before: its days carry a time and a Z
LegacyStore ==
    (VarColour \o Underscore \o KindString \o DotCsv) :>
        [header |-> GanttColumns,
         rows   |-> << [variable_name |-> VarColour, start_day |-> DayZ05,
                        end_day |-> DayZ06, category |-> CatGreen, notes |-> <<>>] >>]

VarOld == <<"O","l","d">>

\* a bucket with two files written before: one whose second row has a day that
\* is no date, and one without the notes column
DamagedStore ==
    ((VarColour \o Underscore \o KindString \o DotCsv) :>
        [header |-> GanttColumns,
         rows   |-> << [variable_name |-> VarColour, start_day |-> DayZ05,
                        end_day |-> DayZ06, category |-> CatGreen, notes |-> <<>>],
                       [variable_name |-> VarColour, start_day |-> DaySlashes,
                        end_day |-> Day06, category |-> CatGreen, notes |-> <<>>] >>])
    @@ ((VarOld \o Underscore \o KindBinary \o DotCsv) :>
        [header |-> <<"variable_name", "start_day", "end_day", "category">>,
         rows   |-> << [variable_name |-> VarOld, start_day |-> Day05,
                        end_day |-> Day06, category |-> CatYes] >>])

\* n_clicks, variable_name, data_type
CreateInputs ==
    { <<0, VarPH, KindFloat>>, <<1, <<>>, KindFloat>>, <<1, VarPH, <<>> >>,
      <<1, VarPH, KindBogus>>, <<1, VarPH, KindFloat>>, <<1, VarAB, KindPercentage>>,
      <<1, VarPH, KindString>>, <<1, VarPH, KindBinary>> }

\* n_clicks, variable, value, units, days, notes
FloatInputs ==
    { <<0, VarPH, Num(7), UnitsL, Num(3), <<>> >>,
      <<1, <<>>, Num(7), UnitsL, Num(3), <<>> >>,
      <<1, VarPH, None, UnitsL, Num(3), <<>> >>,
      <<1, VarPH, Num(7), <<>>, Num(3), <<>> >>,
      <<1, VarPH, Num(7), UnitsL, None, <<>> >>,
      <<1, VarPH, Num(0), UnitsL, Num(0), <<>> >>,
      <<1, VarPH, Num(7), UnitsL, Num(3), NotesNA>>,
      <<1, VarPH, Num(7), UnitsL, Num(3), Notes007>> }

\* n_clicks, variable, value, days, notes
PercentageInputs ==
    { <<1, <<>>, Num(50), Num(3), <<>> >>,
      <<1, VarAB, None, Num(3), <<>> >>,
      <<1, VarAB, Num(50), None, <<>> >>,
      <<1, VarAB, Num(0), Num(0), <<>> >>,
      <<1, VarAB, Num(100), Num(3), <<>> >>,
      <<1, VarA_B, Num(50), Num(3), <<>> >>,
      <<1, VarAB, Num(101), Num(3), <<>> >>,
      <<1, VarAB, Num(0 - 1), Num(3), <<>> >> }

\* n_clicks, variable, start_day, end_day, category, notes
StringInputs ==
    { <<1, <<>>, Day05, Day06, CatGreen, <<>> >>,
      <<1, VarPH, <<>>, Day06, CatGreen, <<>> >>,
      <<1, VarPH, Day05, <<>>, CatGreen, <<>> >>,
      <<1, VarPH, Day05, Day06, <<>>, <<>> >>,
      <<1, VarPH, DaySlashes, Day06, CatGreen, <<>> >>,
      <<1, VarPH, Day06, Day05, CatGreen, <<>> >>,
      <<1, VarPH, Day05, Day05, CatGreen, <<>> >>,
      <<1, VarPH, DayDefault, Day06, CatGreen, <<>> >>,
      <<1, VarPH, DayDefault, Day05, CatGreen, <<>> >> }

BinaryInputs ==
    { <<1, VarPH, Day05, Day06, <<>>, <<>> >>,
      <<1, VarPH, Day06, Day05, CatYes, <<>> >>,
      <<1, VarPH, Day05, Day06, CatYes, <<>> >> }

\* the rows the model lets the bucket hold: a submission is stored only below it
MaxRows == 2

TotalRows(store) ==
    Cardinality(UNION {{<<n, i>> : i \in DOMAIN store[n].rows} : n \in DOMAIN store})

CreateVariable ==
    /\ call = Idle
    /\ \E in \in CreateInputs : create_variable(in[1], in[2], in[3])
    /\ UNCHANGED <<primary_listing, output_store, merged_dataframes,
                   filename_prefixes, req>>

SubmitFloatData ==
    /\ call = Idle
    /\ \E in \in FloatInputs :
          submit_float_data(in[1], in[2], in[3], in[4], in[5], in[6])
    /\ call'.outcome = "submitted" => TotalRows(manual_store) < MaxRows
    /\ UNCHANGED <<primary_listing, output_store, merged_dataframes,
                   filename_prefixes, req>>

SubmitPercentageData ==
    /\ call = Idle
    /\ \E in \in PercentageInputs :
          submit_percentage_data(in[1], in[2], in[3], in[4], in[5])
    /\ call'.outcome = "submitted" => TotalRows(manual_store) < MaxRows
    /\ UNCHANGED <<primary_listing, output_store, merged_dataframes,
                   filename_prefixes, req>>

SubmitStringData ==
    /\ call = Idle
    /\ \E in \in StringInputs :
          submit_string_data(in[1], in[2], in[3], in[4], in[5], in[6])
    /\ call'.outcome = "submitted" => TotalRows(manual_store) < MaxRows
    /\ UNCHANGED <<primary_listing, output_store, merged_dataframes,
                   filename_prefixes, req>>

SubmitBinaryData ==
    /\ call = Idle
    /\ \E in \in BinaryInputs :
          submit_binary_data(in[1], in[2], in[3], in[4], in[5], in[6])
    /\ call'.outcome = "submitted" => TotalRows(manual_store) < MaxRows
    /\ UNCHANGED <<primary_listing, output_store, merged_dataframes,
                   filename_prefixes, req>>

UpdateGanttChart ==
    /\ call = Idle
    /\ \E selected_vars \in
             SeqsUpTo(list_gantt_manual_variables(manual_store), MaxSelected) :
          update_gantt_chart(selected_vars)
    /\ UNCHANGED <<primary_listing, output_store, merged_dataframes,
                   filename_prefixes, req>>

InitManual ==
    /\ primary_listing = <<>>
    /\ output_store = << >>
    /\ merged_dataframes = [v \in VariableSet |-> <<>>]
    /\ filename_prefixes = <<>>
    /\ call = Idle
    /\ req = << >>
    /\ manual_store \in {<< >>, LegacyStore, DamagedStore}

NextManual ==
    \/ CreateVariable \/ SubmitFloatData \/ SubmitPercentageData
    \/ SubmitStringData \/ SubmitBinaryData \/ UpdateGanttChart \/ Respond

SpecManual == InitManual /\ [][NextManual]_vars

(***************************************************************************)
(* The figure of process, offline and manual variables together            *)
(***************************************************************************)
\* list_manual_variables (lines 97-104): the csv objects of the manual bucket
\* that are not _binary or _string files, without their .csv
list_manual_variables(store) ==
    {SubSeq(n, 1, Len(n) - 4) :
        n \in {m \in DOMAIN store :
                 /\ endswith(m, DotCsv)
                 /\ ~ endswith(m, Underscore \o KindBinary \o DotCsv)
                 /\ ~ endswith(m, Underscore \o KindString \o DotCsv)}}

\* the merges of the model: n_clicks, start_date, end_date, filename_prefix
BatchInputs ==
    { <<1, Jan01, Jan31, PrefixB1>>, <<1, Jan10, Jan10, PrefixRun1>>,
      <<1, Feb01, Feb28, PrefixB1>> }

\* the selections of process variables of the model, offered for known prefixes
ProcessSelections ==
    { sel \in { <<>>,
                <<DropdownValue(PrefixB1, V_78TT001)>>,
                <<DropdownValue(PrefixB1, V_10R001)>>,
                <<DropdownValue(PrefixRun1, V_78TT001), DropdownValue(PrefixB1, V_78TT001)>> } :
        \A i \in DOMAIN sel :
            \E q \in KnownPrefixes : sel[i] \in update_variable_dropdown({q}) }

\* the selections of offline names of the model (the options of line 381)
OfflineSelections == { <<>>, <<TableProtein>>, <<TableLead, TableSodium>> }

MergeBatch ==
    /\ call = Idle
    /\ \E in \in BatchInputs : update_file_list(in[1], in[2], in[3], in[4])
    /\ UNCHANGED <<manual_store, primary_listing, req>>

UpdateGraphAll ==
    /\ call = Idle
    /\ \E selected_variables \in ProcessSelections,
          new_variables \in OfflineSelections,
          manual_variables \in SeqsUpTo(list_manual_variables(manual_store), MaxSelected),
          time_mode \in {"absolute", "elapsed"} :
          update_graph(selected_variables, new_variables, manual_variables, time_mode)
    /\ UNCHANGED <<manual_store, primary_listing, req>>

\* the download button, pressed while the page holds the records of the figure
\* in current-graph-data
DownloadGraphData ==
    /\ call.op = "update_graph"
    /\ \E n_clicks \in {0, 1} : download_graph_data(n_clicks, call.export)
    /\ UNCHANGED <<manual_store, primary_listing, output_store, merged_dataframes,
                   filename_prefixes, req>>

InitGraph ==
    /\ primary_listing \in Listings
    /\ output_store = << >>
    /\ merged_dataframes = [v \in VariableSet |-> <<>>]
    /\ filename_prefixes = <<>>
    /\ call = Idle
    /\ req = << >>
    /\ manual_store = << >>

NextGraph ==
    \/ MergeBatch \/ SubmitFloatData \/ SubmitPercentageData \/ UpdateGraphAll
    \/ DownloadGraphData \/ Respond

SpecGraph == InitGraph /\ [][NextGraph]_vars

(***************************************************************************)
(* Properties of the date filter                                           *)
(***************************************************************************)
Contains(seq, x) == \E i \in DOMAIN seq : seq[i] = x

\* C1 as stated: a file named by the documented convention
\* <source>_<YYYYMMDD>_<suffix>.csv, here x_20240115_y.csv, is included exactly
\* when its embedded date lies in the inclusive range (so it is included for
\* [2024-01-01, 2024-01-31] and excluded for [2024-02-01, 2024-02-28]).
C1_DocumentedConventionFiltered ==
    (call.op = "filter_files_by_date" /\ Contains(call.files, FileDocumented))
    => (Contains(call.result, FileDocumented)
          <=> (call.start_date <= Jan15 /\ Jan15 <= call.end_date))

\* C1 amended: the date is read from the THIRD underscore-delimited token, so a
\* file named <a>_<b>_<YYYYMMDD>_<suffix>.csv, here Data_log_20240115_a.csv, is
\* included exactly when its date lies in the inclusive range, and
\* x_20240115_y.csv, whose third token is y.csv, is never included.
C1_ThirdTokenConventionFiltered ==
    call.op = "filter_files_by_date"
    => /\ Contains(call.files, FileJan15)
            => (Contains(call.result, FileJan15)
                  <=> (call.start_date <= Jan15 /\ Jan15 <= call.end_date))
       /\ ~ Contains(call.result, FileDocumented)

\* both conventions in one listing, January selected: only the file with the
\* date in its third token is returned
C1_Witness ==
    /\ call.op = "filter_files_by_date"
    /\ call.files = <<FileDocumented, FileJan15>>
    /\ call.start_date = Jan01 /\ call.end_date = Jan31
    /\ call.result = <<FileJan15>>

\* what C7 says of each name of the model: the date its third token parses to
\* under %Y%m%d (strptime also takes a one-digit month or day, so 2024115 is
\* 2024-11-05), NoDate when there are fewer than three tokens or no such date
ThirdTokenDate(name) ==
    CASE name = FileJan10 -> 20240110
      [] name = FileJan15 -> 20240115
      [] name = NameJan31 -> 20240131
      [] name = NameJan01 -> 20240101
      [] name = NameFeb01 -> 20240201
      [] name = NameEmptyToken -> 20240115
      [] name = NameShortDate -> 20241105
      [] name = FileJan20 -> 20240120
      [] name \in {FileDocumented, FileNotes, FileReadme, NameThirdTokenCsv,
                   NameFeb30, NameFourthToken} -> NoDate

\* C7: filter_files_by_date returns, in listing order, exactly the names with at
\* least three tokens whose third token parses as a date d with
\* start <= d <= end; every other name is skipped and does not affect the rest.
C7_FilterKeepsExactlyDatedInRange ==
    call.op = "filter_files_by_date"
    => call.result =
         SelectSeq(call.files, LAMBDA f :
            /\ ThirdTokenDate(f) # NoDate
            /\ call.start_date <= ThirdTokenDate(f)
            /\ ThirdTokenDate(f) <= call.end_date)

\* a skipped name before a kept one, whose date is the end of the range
C7_Witness ==
    /\ call.op = "filter_files_by_date"
    /\ call.files = <<FileNotes, NameJan31>>
    /\ call.end_date = Jan31
    /\ call.result = <<NameJan31>>

(***************************************************************************)
(* Properties of sanitize_filename                                         *)
(***************************************************************************)
\* C8: sanitize_filename replaces every character that is not alphanumeric, space,
\* underscore or hyphen by '_', keeps all other characters in place, and strips
\* trailing whitespace; "A/B C" maps to "A_B C".
C8_SanitizeReplacesAndStrips ==
    call.op = "sanitize_filename"
    => LET f == call.filename
           r == call.result
           Kept(c) == c \in Letters \cup Digits \cup {" ", "_", "-"}
       IN  /\ Len(r) <= Len(f)
           /\ \A i \in 1..Len(r) : r[i] = IF Kept(f[i]) THEN f[i] ELSE "_"
           /\ r = <<>> \/ r[Len(r)] # " "
           /\ \A i \in (Len(r) + 1)..Len(f) : f[i] = " "
           /\ f = NameSlash => r = <<"A","_","B"," ","C">>

C8_Witness ==
    /\ call.op = "sanitize_filename"
    /\ call.filename = NameSlash
    /\ call.result = <<"A","_","B"," ","C">>

(***************************************************************************)
(* Properties of remove_outliers                                           *)
(***************************************************************************)
\* the k-th smallest of the values, by counting
KthSmallest(values, k) ==
    CHOOSE v \in SeqToSet(values) :
        /\ Cardinality({i \in DOMAIN values : values[i] < v}) < k
        /\ k <= Cardinality({i \in DOMAIN values : values[i] <= v})

\* four times the q/4 quantile: rank q*(n-1)/4, interpolated linearly
QuartileTimes4(values, q) ==
    LET h == q * (Len(values) - 1)
    IN  IF h % 4 = 0 THEN 4 * KthSmallest(values, (h \div 4) + 1)
        ELSE (4 - (h % 4)) * KthSmallest(values, (h \div 4) + 1)
               + (h % 4) * KthSmallest(values, (h \div 4) + 2)

\* C9: remove_outliers keeps exactly the rows whose value lies in
\* [Q1 - 1.5*IQR, Q3 + 1.5*IQR], Q1 and Q3 the quartiles of the series' own values;
\* of 1, 2, 3, 4, 100 the value 100 is excluded and 1, 2, 3, 4 are kept.
C9_KeepsExactlyWithinFences ==
    (call.op = "remove_outliers" /\ call.rows # <<>>)
    => LET values == [i \in DOMAIN call.rows |-> call.rows[i].VarValue]
           q1 == QuartileTimes4(values, 1)
           q3 == QuartileTimes4(values, 3)
       IN  /\ call.result =
                SelectSeq(call.rows, LAMBDA r :
                    /\ 8 * r.VarValue >= 5 * q1 - 3 * q3
                    /\ 8 * r.VarValue <= 5 * q3 - 3 * q1)
           /\ values = <<1, 2, 3, 4, 100>>
                => [i \in DOMAIN call.result |-> call.result[i].VarValue] = <<1, 2, 3, 4>>

C9_Witness ==
    /\ call.op = "remove_outliers"
    /\ [i \in DOMAIN call.rows |-> call.rows[i].VarValue] = <<1, 2, 3, 4, 100>>
    /\ Len(call.result) = 4

(***************************************************************************)
(* Properties of the merged files                                          *)
(***************************************************************************)
\* C2: a merged file written for (prefix p, variable v) is found by the loader
\* through the dropdown value offered for (p, v), with the rows it was written
\* with, for every one of the 21 variable names: the object name written equals
\* the object name looked up.
C2_WrittenFileIsFoundByLoader ==
    \A p \in SeqToSet(filename_prefixes), i \in DOMAIN variable_names :
        LET v == variable_names[i]
            written   == OutputFile(p, v)
            looked_up == LookupFile(DropdownValue(p, v))
        IN  written \in DOMAIN output_store
            => /\ looked_up = written
               /\ looked_up \in DOMAIN output_store
               /\ read_csv(output_store[looked_up]) = output_store[written].rows

\* the rows of the files, in file-then-row order, whose VarName is v
RECURSIVE ExpectedRows(_, _)
ExpectedRows(files, v) ==
    IF files = <<>> THEN <<>>
    ELSE LET lines == primary_data[Head(files)].lines
             own   == SelectSeq(lines, LAMBDA l : ~ l.bad /\ l.VarName = v)
         IN  [i \in DOMAIN own |-> [VarName |-> v, TimeString |-> own[i].TimeString,
                                    VarValue |-> own[i].VarValue]]
             \o ExpectedRows(Tail(files), v)

\* the names of the listing whose date lies in the range, by the table of dates
ExpectedSelection(start_date, end_date) ==
    SelectSeq(primary_listing, LAMBDA f :
        /\ ThirdTokenDate(f) # NoDate
        /\ start_date <= ThirdTokenDate(f) /\ ThirdTokenDate(f) <= end_date)

\* a raw file process_csv_file can read: it has a header with a VarName column
WellFormed(f) == "VarName" \in primary_data[f].columns

\* C4: a batch merge is never aborted by one bad input: a selected file that is
\* malformed or has no VarName column is skipped, and the rows of all other
\* selected files are still merged and uploaded.
C4_BadFileIsSkipped ==
    (call.op = "update_file_list" /\ call.selected_files # <<>>)
    => /\ call.outcome = "saved"
       /\ \A v \in VariableSet :
             LET rows == ExpectedRows(SelectSeq(call.selected_files, WellFormed), v)
                 name == OutputFile(call.filename_prefix, v)
             IN  rows # <<>> => /\ name \in DOMAIN output_store
                                /\ output_store[name].rows = rows

\* C5: the file uploaded by a merge for (prefix p, variable v) holds exactly the
\* rows whose VarName equals v, from the files selected by the merge's date range,
\* in file-then-row order; no row of an earlier merge appears in it, and a
\* variable without rows gets no file.
C5_UploadIsFileThenRowConcatenation ==
    (call.op = "update_file_list" /\ call.outcome = "saved")
    => LET files == ExpectedSelection(call.start_date, call.end_date)
       IN  \A v \in VariableSet :
             LET rows == ExpectedRows(files, v)
                 name == OutputFile(call.filename_prefix, v)
             IN  /\ merged_dataframes[v] = rows
                 /\ rows # <<>> => /\ Contains(call.saved_files, name)
                                   /\ name \in DOMAIN output_store
                                   /\ output_store[name].rows = rows
                 /\ rows = <<>> => ~ Contains(call.saved_files, name)

\* a merge of one file under B1 after a merge of two files under Run_1: the new
\* file has the two rows of its own file, the old one still has its five
C5_Witness ==
    /\ call.op = "update_file_list" /\ call.outcome = "saved"
    /\ call.filename_prefix = PrefixB1
    /\ call.selected_files = <<FileJan10>>
    /\ OutputFile(PrefixRun1, V_78TT001) \in DOMAIN output_store
    /\ Len(output_store[OutputFile(PrefixRun1, V_78TT001)].rows) = 5
    /\ Len(output_store[OutputFile(PrefixB1, V_78TT001)].rows) = 2

\* C11: a batch merge leaves every object it does not upload as it was: the files
\* of other prefixes, and the files of its own prefix for variables without rows
\* in this batch; it writes only objects named <prefix>_<sanitized-variable>.csv
\* for variables whose accumulator is not empty.
C11_MergeWritesOnlyItsFiles ==
    [][call'.op = "update_file_list"
       => LET written == IF call'.outcome = "saved"
                         THEN {OutputFile(call'.filename_prefix, v) :
                                 v \in {w \in VariableSet : merged_dataframes'[w] # <<>>}}
                         ELSE {}
          IN  /\ DOMAIN output_store \subseteq DOMAIN output_store'
              /\ DOMAIN output_store' \ DOMAIN output_store \subseteq written
              /\ SeqToSet(call'.saved_files) = written
              /\ \A n \in DOMAIN output_store \ written :
                    output_store'[n] = output_store[n]]_vars

\* a merge of Data_log_20240115_a.csv under B1: the B1 file of 30P001.HMI.DATA_2,
\* which has no rows in this batch, and a file of Run_1 stay in the store
C11_Witness ==
    /\ call.op = "update_file_list" /\ call.outcome = "saved"
    /\ call.filename_prefix = PrefixB1
    /\ call.selected_files = <<FileJan15>>
    /\ OutputFile(PrefixB1, V_30P001_DATA_2) \in DOMAIN output_store
    /\ ~ Contains(call.saved_files, OutputFile(PrefixB1, V_30P001_DATA_2))
    /\ OutputFile(PrefixRun1, V_78TT001) \in DOMAIN output_store

\* C12: after a completed merge for prefix p, p is in filename_prefixes and in the
\* prefix options returned; filename_prefixes never holds a prefix twice.
C12_PrefixRegisteredOnce ==
    /\ (call.op = "update_file_list" /\ call.outcome = "saved")
       => /\ Contains(filename_prefixes, call.filename_prefix)
          /\ call.filename_prefix \in call.prefix_options
    /\ \A i, j \in DOMAIN filename_prefixes :
          i # j => filename_prefixes[i] # filename_prefixes[j]

\* a second merge under B1, after one under Run_1: the list is unchanged
C12_Witness ==
    /\ call.op = "update_file_list" /\ call.outcome = "saved"
    /\ call.filename_prefix = PrefixB1
    /\ filename_prefixes = <<PrefixB1, PrefixRun1>>

(***************************************************************************)
(* Properties of the series loader                                         *)
(***************************************************************************)
\* the rows of the merged file a selection names, when there is one
SelectedFileRows(var) ==
    IF LookupFile(var) \in DOMAIN output_store
    THEN output_store[LookupFile(var)].rows ELSE <<>>

\* C3: when update_graph loads a variable of the skip list, outlier removal is
\* skipped entirely: every value of the merged file with a readable instant, such
\* as the 100 of 1, 2, 3, 4, 100, is retained in the loaded series.
C3_SkipListKeepsOutliers ==
    (/\ call.op = "update_graph"
     /\ Len(call.selected_variables) = 1
     /\ split1(call.selected_variables[1], "_")[2] \in skip_variables)
    => LET rows == SelectedFileRows(call.selected_variables[1])
       IN  \A i \in DOMAIN rows :
              rows[i].TimeString.fmt = DashFormat
              => \E j \in DOMAIN call.all_data :
                    call.all_data[j].VarValue = Frac(rows[i].VarValue, 1)

\* the readings the loader resamples: the rows of the merged file with a readable
\* instant that the outlier filter keeps
Readings(var) ==
    LET rows == SelectedFileRows(var)
        all  == [i \in DOMAIN rows |->
                    [TimeString |-> to_datetime(rows[i].TimeString),
                     VarValue   |-> rows[i].VarValue]]
    IN  SelectSeq(remove_outliers(all, VarValueColumn), LAMBDA r : r.TimeString # NaT)

\* C10: resampling yields one row per one-minute bucket from the first to the last
\* reading; a bucket with readings carries their mean, a bucket without readings
\* the value of the bucket before it (forward fill, not interpolation); readings
\* 10 at minute 0 and 20 at minute 3 yield 10, 10, 10, 20.
C10_ResampleMeanForwardFill ==
    (/\ call.op = "update_graph"
     /\ Len(call.selected_variables) = 1
     /\ call.outcome = "figure"
     /\ split1(call.selected_variables[1], "_")[2] \notin skip_variables)
    => LET readings == Readings(call.selected_variables[1])
           minutes  == {readings[i].TimeString \div 60 : i \in DOMAIN readings}
           out      == call.all_data
           In(m)    == {i \in DOMAIN readings : readings[i].TimeString \div 60 = m}
           Total(m) == Sum([k \in 1..Len(readings) |->
                              IF k \in In(m) THEN readings[k].VarValue ELSE 0])
       IN  /\ Len(out) = Max(minutes) - Min(minutes) + 1
           /\ \A j \in DOMAIN out :
                 LET m == Min(minutes) + j - 1
                 IN  /\ out[j].TimeString = 60 * m
                     /\ IF In(m) # {}
                        THEN out[j].VarValue.num * Cardinality(In(m))
                                = Total(m) * out[j].VarValue.den
                        ELSE out[j].VarValue = out[j - 1].VarValue

\* the file of 78TT001 merged from Data_log_20240110_a.csv: 10 at 00:00:00 and 20
\* at 00:03:00
C10_Witness ==
    /\ call.op = "update_graph"
    /\ call.selected_variables = <<DropdownValue(PrefixB1, V_78TT001)>>
    /\ [j \in DOMAIN call.all_data |-> call.all_data[j].VarValue]
         = <<Frac(10, 1), Frac(10, 1), Frac(10, 1), Frac(20, 1)>>

\* C20: no row with an unreadable TimeString appears in a series the loader
\* returns, whether or not the variable is on the skip list, and a file whose
\* instants are all unreadable contributes no rows.
C20_NoUnreadableInstantLoaded ==
    call.op = "update_graph"
    => /\ \A j \in DOMAIN call.all_data : call.all_data[j].TimeString # NaT
       /\ \A i \in DOMAIN call.selected_variables :
             LET var  == call.selected_variables[i]
                 rows == SelectedFileRows(var)
             IN  (\A k \in DOMAIN rows : rows[k].TimeString.fmt # DashFormat)
                 => \A j \in DOMAIN call.all_data :
                       call.all_data[j].Variable # split1(var, "_")[2]

(***************************************************************************)
(* Properties of the plot assembler                                        *)
(***************************************************************************)
\* C18: the unit of the first group met gets the primary Y-axis; every variable
\* whose unit differs from that first unit is drawn on the one secondary axis and
\* every variable with the first unit on the primary axis, so no more than two
\* axes are used however many units are selected.
C18_FirstUnitPrimaryOthersSecondary ==
    call.op = "plot_assembler"
    => LET traces == call.traces
           first  == CHOOSE v \in call.variables :
                        \A w \in call.variables \ {v} : TextLess(v, w)
       IN  /\ {traces[i].Variable : i \in DOMAIN traces} = call.variables
           /\ Len(traces) = Cardinality(call.variables)
           /\ \A i \in DOMAIN traces :
                 /\ traces[i].yaxis_title = UnitOf(variable_units, traces[i].Variable)
                 /\ traces[i].secondary_y
                      <=> (UnitOf(variable_units, traces[i].Variable)
                              # UnitOf(variable_units, first))

\* four variables of three units: the two of the first unit (pH) are on the
\* primary axis, the two units after it share the secondary axis
C18_Witness ==
    /\ call.op = "plot_assembler"
    /\ call.variables = {V_20XTC001, V_20XTC002, V_78TT001, V_10R001}
    /\ \E i, j \in DOMAIN call.traces :
          /\ call.traces[i].yaxis_title # call.traces[j].yaxis_title
          /\ call.traces[i].secondary_y /\ call.traces[j].secondary_y
    /\ \E i, j \in DOMAIN call.traces :
          /\ i # j
          /\ ~ call.traces[i].secondary_y /\ ~ call.traces[j].secondary_y

(***************************************************************************)
(* Properties of concurrent merges                                         *)
(***************************************************************************)
\* request i uploaded a file that is not the file-then-row concatenation of its
\* own selected files, or finished without a file it had rows for
Deviates(i) ==
    \E v \in VariableSet :
        LET rows == ExpectedRows(ExpectedSelection(req[i].start_date, req[i].end_date), v)
            name == OutputFile(req[i].filename_prefix, v)
        IN  \/ name \in DOMAIN req[i].uploaded /\ req[i].uploaded[name] # rows
            \/ req[i].pc = "saved" /\ rows # <<>> /\ name \notin DOMAIN req[i].uploaded

\* C6: the accumulator is safe only while requests are serialized: a request
\* uploads a file that is not the concatenation of its own selected files only
\* when another request rebound or wrote the accumulator in between (and the
\* witness shows that two interleaved callbacks do reach such an upload).
C6_DeviationOnlyWhenInterleaved ==
    \A i \in DOMAIN req : Deviates(i) => req[i].disturbed

\* both requests are done, under different prefixes, and a file in the store under
\* the prefix of one is not the concatenation of that request's own files
C6_Witness ==
    /\ DOMAIN req = Requests
    /\ \A i \in Requests : req[i].pc = "saved"
    /\ req[1].filename_prefix # req[2].filename_prefix
    /\ \E i \in Requests, v \in VariableSet :
          LET rows == ExpectedRows(ExpectedSelection(req[i].start_date, req[i].end_date), v)
              name == OutputFile(req[i].filename_prefix, v)
          IN  /\ name \in DOMAIN output_store
              /\ output_store[name].rows # rows
              /\ output_store[name].rows = req[i].uploaded[name]

(***************************************************************************)
(* Properties of the manual entry forms                                    *)
(***************************************************************************)
SubmitOps ==
    {"submit_float_data", "submit_percentage_data", "submit_string_data",
     "submit_binary_data"}

\* the rows of an object of the manual bucket, none when it does not exist
RowsOf(store, filename) ==
    IF filename \in DOMAIN store THEN store[filename].rows ELSE <<>>

\* C13: a successful submission leaves in the file every row it held before,
\* unchanged and in the same order, followed by exactly one new row.
C13_SubmitOnlyAppends ==
    [][(call'.op \in SubmitOps /\ call'.outcome = "submitted") =>
          LET before == RowsOf(manual_store, call'.filename)
              after  == RowsOf(manual_store', call'.filename)
          IN  /\ Len(after) = Len(before) + 1
              /\ SubSeq(after, 1, Len(before)) = before]_vars


\* the name create_variable gives the file of the names and kinds of the model
TemplateName(variable_name, data_type) ==
    CASE variable_name = VarPH /\ data_type = KindFloat ->
            <<"p","H","_","f","l","o","a","t",".","c","s","v">>
      [] variable_name = VarPH /\ data_type = KindString ->
            <<"p","H","_","s","t","r","i","n","g",".","c","s","v">>
      [] variable_name = VarPH /\ data_type = KindBinary ->
            <<"p","H","_","b","i","n","a","r","y",".","c","s","v">>
      [] variable_name = VarAB /\ data_type = KindPercentage ->
            <<"A","_","B","_","p","e","r","c","e","n","t","a","g","e",".","c","s","v">>

\* C14: create_variable(name, kind) writes the object <sanitized name>_<kind>.csv
\* as a header without rows, the header being that of the kind; an object that
\* exists already is left as it is and the call answers with the warning; with
\* the name or the kind missing nothing is written.  No other object changes.
C14_CreateWritesTemplateOnce ==
    [][(call'.op = "create_variable" /\ call'.n_clicks > 0) =>
          LET name == call'.variable_name
              kind == call'.data_type
          IN  IF name = <<>> \/ kind = <<>>
              THEN call'.outcome = "missing input" /\ manual_store' = manual_store
              ELSE IF kind = KindBogus
              THEN call'.outcome = "invalid type" /\ manual_store' = manual_store
              ELSE IF TemplateName(name, kind) \in DOMAIN manual_store
              THEN call'.outcome = "exists" /\ manual_store' = manual_store
              ELSE /\ call'.outcome = "created"
                   /\ DOMAIN manual_store' = DOMAIN manual_store \cup {TemplateName(name, kind)}
                   /\ \A n \in DOMAIN manual_store : manual_store'[n] = manual_store[n]
                   /\ manual_store'[TemplateName(name, kind)] =
                         [header |-> IF kind \in {KindFloat, KindPercentage}
                                     THEN <<"variable_name", "value", "units", "notes",
                                            "days_since_inoculation">>
                                     ELSE <<"variable_name", "start_day", "end_day",
                                            "category", "notes">>,
                          rows |-> <<>>]]_vars

\* a template was created for a string variable, and a later create_variable for
\* a file that holds a row was answered with the warning
C14_Witness ==
    /\ call.op = "create_variable"
    /\ call.outcome = "exists"
    /\ Len(manual_store[call.filename].rows) = 1
    /\ \E n \in DOMAIN manual_store :
          manual_store[n] = [header |-> GanttColumns, rows |-> <<>>]


\* a required field of the last submit call is missing
RequiredFieldMissing ==
    CASE call.op = "submit_float_data" ->
            \/ call.variable = <<>> \/ ~ call.value.given
            \/ call.units = <<>> \/ ~ call.days.given
      [] call.op = "submit_percentage_data" ->
            call.variable = <<>> \/ ~ call.value.given \/ ~ call.days.given
      [] call.op \in {"submit_string_data", "submit_binary_data"} ->
            \/ call.variable = <<>> \/ call.start_day = <<>>
            \/ call.end_day = <<>> \/ call.category = <<>>
      [] OTHER -> FALSE

\* C15: a clicked submit callback with a required field missing answers with the
\* rejection message and leaves the manual bucket as it was; with every required
\* field present, the number 0 among them, it does not answer that a field is
\* missing.
C15_MissingFieldRejected ==
    [][(call'.op \in SubmitOps /\ call'.n_clicks > 0) =>
          /\ RequiredFieldMissing' <=> call'.outcome = "missing input"
          /\ call'.outcome = "missing input" => manual_store' = manual_store]_vars

\* a submission with value 0 and day 0 was stored, and a later submission on a
\* bucket that holds it was rejected for a missing field
C15_Witness ==
    /\ call.op \in SubmitOps
    /\ call.outcome = "missing input"
    /\ \E n \in DOMAIN manual_store : \E i \in DOMAIN manual_store[n].rows :
          /\ manual_store[n].header = FloatColumns
          /\ manual_store[n].rows[i]["value"] = <<"0", ".", "0">>
          /\ manual_store[n].rows[i]["days_since_inoculation"] = <<"0">>


\* the number a value cell of the model stands for, -1 for any other text
PercentOfCell(t) ==
    CASE t = <<"0", ".", "0">> -> 0
      [] t = <<"5", "0", ".", "0">> -> 50
      [] t = <<"1", "0", "0", ".", "0">> -> 100
      [] OTHER -> 0 - 1

\* C16: submit_percentage_data stores a row exactly when its value is between 0
\* and 100, both included, and otherwise answers with the rejection and writes
\* nothing; every row of a _percentage file has a value in that range and the
\* units %.
C16_PercentageWithinRange ==
    [][/\ (/\ call'.op = "submit_percentage_data" /\ call'.n_clicks > 0
           /\ ~ RequiredFieldMissing') =>
             /\ call'.outcome = "submitted"
                   <=> (0 <= call'.value.n /\ call'.value.n <= 100)
             /\ call'.outcome # "submitted" =>
                   call'.outcome = "out of range" /\ manual_store' = manual_store
       /\ \A n \in DOMAIN manual_store' :
             endswith(n, <<"_","p","e","r","c","e","n","t","a","g","e",".","c","s","v">>) =>
                \A i \in DOMAIN manual_store'[n].rows :
                   /\ PercentOfCell(manual_store'[n].rows[i]["value"]) \in 0..100
                   /\ manual_store'[n].rows[i]["units"] = <<"%">>]_vars

\* a percentage file holds the two ends of the range, and a value beyond them
\* was rejected
C16_Witness ==
    /\ call.op = "submit_percentage_data"
    /\ call.outcome = "out of range"
    /\ \E n \in DOMAIN manual_store :
          /\ endswith(n, Underscore \o KindPercentage \o DotCsv)
          /\ Len(manual_store[n].rows) = 2
          /\ {manual_store[n].rows[i]["value"] : i \in 1..2}
                = {<<"0", ".", "0">>, <<"1", "0", "0", ".", "0">>}


\* the calendar day and the seconds into it that a day text of the model names,
\* NoDate for a text that names no day
InstantOf(t) ==
    CASE t = Day05      -> <<20240105, 0>>
      [] t = Day06      -> <<20240106, 0>>
      [] t = DayDefault -> <<20240105, 49512>>
      [] t = DayZ05     -> <<20240105, 0>>
      [] t = DayZ06     -> <<20240106, 0>>
      [] OTHER          -> <<NoDate, 0>>

Later(a, b) == a[1] > b[1] \/ (a[1] = b[1] /\ a[2] > b[2])

\* C17: submit_string_data and submit_binary_data, given all fields and two
\* readable days, store the row exactly when the start is not after the end (the
\* same day for both is stored) and otherwise answer with the rejection and
\* write nothing; every row of a _string or _binary file has its start_day not
\* after its end_day.
C17_StartNotAfterEnd ==
    [][/\ (/\ call'.op \in {"submit_string_data", "submit_binary_data"}
           /\ call'.n_clicks > 0
           /\ ~ RequiredFieldMissing'
           /\ call'.outcome # "invalid dates") =>
             /\ call'.outcome = "submitted"
                   <=> ~ Later(InstantOf(call'.start_day), InstantOf(call'.end_day))
             /\ call'.outcome # "submitted" =>
                   call'.outcome = "start after end" /\ manual_store' = manual_store
       /\ \A n \in DOMAIN manual_store' :
             manual_store'[n].header = GanttColumns =>
                \A i \in DOMAIN manual_store'[n].rows :
                   ~ Later(InstantOf(manual_store'[n].rows[i]["start_day"]),
                           InstantOf(manual_store'[n].rows[i]["end_day"]))]_vars

\* a row that starts and ends on the same day is stored, and a row that starts
\* after its end was rejected
C17_Witness ==
    /\ call.op \in {"submit_string_data", "submit_binary_data"}
    /\ call.outcome = "start after end"
    /\ \E n \in DOMAIN manual_store : \E i \in DOMAIN manual_store[n].rows :
          /\ manual_store[n].header = GanttColumns
          /\ manual_store[n].rows[i]["start_day"] = Day05
          /\ manual_store[n].rows[i]["end_day"] = Day05


\* the row of the stored file whose days carry a time and a Z
LegacyRowStored(store) ==
    /\ (VarColour \o <<"_","s","t","r","i","n","g",".","c","s","v">>) \in DOMAIN store
    /\ store[VarColour \o <<"_","s","t","r","i","n","g",".","c","s","v">>].rows[1]["start_day"]
          = <<"2","0","2","4","-","0","1","-","0","5","T","0","0",":","0","0",":","0","0","Z">>

\* C19: the chart reads a day from the first ten characters of its text: the row
\* whose start_day is 2024-01-05T00:00:00Z is kept when its variable is
\* selected, and its entry starts on 2024-01-05.
C19_DayReadFromFirstTenCharacters ==
    (/\ call.op = "update_gantt_chart"
     /\ LegacyRowStored(manual_store)
     /\ \E k \in DOMAIN call.selected_vars : call.selected_vars[k] = VarColour) =>
        /\ call.outcome = "figure"
        /\ \E e \in DOMAIN call.entries :
              /\ call.entries[e].Variable = VarColour
              /\ call.entries[e].Start = 20240105
              /\ call.entries[e].Finish = 20240106
              /\ call.entries[e].Category = [kind |-> "str", s |-> CatGreen]

\* the chart was drawn for the stored variable and for one the form wrote
C19_Witness ==
    /\ call.op = "update_gantt_chart"
    /\ LegacyRowStored(manual_store)
    /\ Len(call.entries) = 2
    /\ call.entries[1].Variable = VarColour
    /\ call.entries[1].Start = 20240105
    /\ call.entries[2].Variable = VarPH


(***************************************************************************)
(* Properties of the series loader and of the figure                       *)
(***************************************************************************)
\* the instants of the rows of a series, the unreadable ones aside
InstantsOf(series) ==
    {series[i].TimeString : i \in DOMAIN series} \ {NaT}

\* C21: in every series the loader returns, the ElapsedTime of a row is the
\* number of minutes from the earliest instant of the series to the instant of
\* the row, in the filled one-minute buckets as well.
C21_ElapsedIsMinutesSinceSeriesStart ==
    call.op = "update_graph" =>
        \A k \in DOMAIN call.selected_variables :
            LET series == LoadSeries(output_store, call.selected_variables[k])
            IN  \A i \in DOMAIN series :
                    series[i].TimeString # NaT =>
                        series[i].ElapsedTime =
                            Frac(series[i].TimeString - Min(InstantsOf(series)),
                                 BucketSeconds)


\* the variable a dropdown value was offered for: the value is a prefix, an
\* underscore and the name of the variable
OfferedVariable(value) ==
    CHOOSE v \in VariableSet :
        Len(value) > Len(v) + 1 /\ endswith(value, Underscore \o v)

\* the rows of the merged file a selection names, with their instants read, as
\* the outlier filter leaves them
ProcessedRows(var) ==
    LET rows == SelectedFileRows(var)
    IN  remove_outliers([i \in DOMAIN rows |->
                            [TimeString |-> to_datetime(rows[i].TimeString),
                             VarValue   |-> rows[i].VarValue]],
                        VarValueColumn)

\* C22: the loader resamples a series to one-minute buckets exactly when the
\* variable selected is not on the skip list: the series of a variable on the
\* list has the rows and instants of the outlier-processed file, no bucket added
\* or averaged; the series of any other variable has one row per minute from its
\* first to its last reading.
C22_ResampledUnlessOnSkipList ==
    (/\ call.op = "update_graph"
     /\ Len(call.selected_variables) = 1
     /\ call.outcome = "figure")
    => LET v    == OfferedVariable(call.selected_variables[1])
           in   == ProcessedRows(call.selected_variables[1])
           out  == call.all_data
           mins == {in[i].TimeString \div BucketSeconds :
                        i \in {j \in DOMAIN in : in[j].TimeString # NaT}}
       IN  IF v \in skip_variables
           THEN /\ Len(out) = Len(in)
                /\ {<<out[i].TimeString, out[i].VarValue>> : i \in DOMAIN out}
                      = {<<in[i].TimeString, Frac(in[i].VarValue, 1)>> : i \in DOMAIN in}
           ELSE /\ Len(out) = Max(mins) - Min(mins) + 1
                /\ \A i \in DOMAIN out :
                      out[i].TimeString = BucketSeconds * (Min(mins) + i - 1)


\* C23: the figure has exactly one trace for each distinct variable name of the
\* loaded rows, and the kind of the trace follows from the selections alone:
\* markers and lines for a name of the manual selection, otherwise a
\* half-transparent bar for a name of the offline selection, otherwise a line.
C23_TraceKindByListMembership ==
    (call.op = "update_graph" /\ call.outcome = "figure") =>
        LET traces == call.traces
            names  == {call.all_data[i].Variable : i \in DOMAIN call.all_data}
        IN  /\ {traces[i].Variable : i \in DOMAIN traces} = names
            /\ Len(traces) = Cardinality(names)
            /\ \A i \in DOMAIN traces :
                  traces[i].kind =
                     IF \E k \in DOMAIN call.manual_variables :
                           call.manual_variables[k] = traces[i].Variable
                     THEN "scatter markers+lines"
                     ELSE IF \E k \in DOMAIN call.new_variables :
                                call.new_variables[k] = traces[i].Variable
                     THEN "bar opacity 0.5"
                     ELSE "line"

\* a figure of a process variable, an offline variable and a manual variable:
\* three traces, one of each kind
C23_Witness ==
    /\ call.op = "update_graph"
    /\ call.outcome = "figure"
    /\ Len(call.selected_variables) = 1
    /\ Len(call.new_variables) = 1
    /\ Len(call.manual_variables) = 1
    /\ {call.traces[i].kind : i \in DOMAIN call.traces}
          = {"scatter markers+lines", "bar opacity 0.5", "line"}


\* the rows the chart is to show for a selection: file by file (_binary, then
\* _string) of each selected variable, the rows of the files that have the five
\* columns whose two days, cut to ten characters, name a day
ExpectedGanttRows(selected_vars) ==
    LET Files(var) == {var \o <<"_","b","i","n","a","r","y",".","c","s","v">>,
                       var \o <<"_","s","t","r","i","n","g",".","c","s","v">>}
        candidates ==
            UNION {UNION {{<<k, n, i>> : i \in DOMAIN RowsOf(manual_store, n)} :
                          n \in Files(selected_vars[k])} : k \in DOMAIN selected_vars}
    IN  {e \in candidates :
            LET header == manual_store[e[2]].header
                row    == manual_store[e[2]].rows[e[3]]
            IN  /\ {"variable_name", "start_day", "end_day", "category", "notes"}
                      \subseteq {header[c] : c \in DOMAIN header}
                /\ InstantOf(row["start_day"])[1] # NoDate
                /\ InstantOf(row["end_day"])[1] # NoDate}

\* C24: the chart has exactly one entry for each of those rows, with the variable
\* selected, the category of the row and its two days; a file without one of the
\* five columns and a row with a day that is no date contribute nothing and do
\* not stop the chart; without any such row the figure is empty.
C24_OneEntryPerReadableRow ==
    call.op = "update_gantt_chart" =>
        LET expected == ExpectedGanttRows(call.selected_vars)
            entries  == call.entries
            Shows(j, e) ==
                LET row == manual_store[e[2]].rows[e[3]]
                IN  /\ entries[j].Variable = call.selected_vars[e[1]]
                    /\ entries[j].Category = [kind |-> "str", s |-> row["category"]]
                    /\ entries[j].Start = InstantOf(row["start_day"])[1]
                    /\ entries[j].Finish = InstantOf(row["end_day"])[1]
        IN  /\ Len(entries) = Cardinality(expected)
            /\ \A e \in expected : \E j \in DOMAIN entries : Shows(j, e)
            /\ \A j \in DOMAIN entries : \E e \in expected : Shows(j, e)
            /\ call.outcome = IF expected = {} THEN "empty figure" ELSE "figure"

\* of the two stored variables selected together, the file without its notes
\* column is passed over and of the two rows of the other file the one whose
\* start is no date is dropped: one entry
C24_Witness ==
    /\ call.op = "update_gantt_chart"
    /\ {call.selected_vars[k] : k \in DOMAIN call.selected_vars} = {VarColour, VarOld}
    /\ Len(manual_store[VarColour \o <<"_","s","t","r","i","n","g",".","c","s","v">>].rows) = 2
    /\ call.outcome = "figure"
    /\ Len(call.entries) = 1


\* C25: the records update_graph stores for export are the rows of the selected
\* process variables and no others, none of an offline or a manual variable,
\* with the columns Time, Variable, VarValue in absolute mode and Elapsed Time
\* (minutes), Variable, VarValue in elapsed mode; download_graph_data returns
\* the stored records under those columns.
C25_ExportHoldsProcessRowsOnly ==
    /\ (call.op = "update_graph" /\ call.outcome = "figure") =>
          LET process == SortSeq(LoadAll(output_store, call.selected_variables), RowLess)
              export  == call.export
          IN  /\ Len(export) = Len(process)
              /\ \A i \in DOMAIN export :
                    /\ export[i].Variable = process[i].Variable
                    /\ export[i].VarValue = process[i].VarValue
                    /\ IF call.time_mode = "absolute"
                       THEN /\ DOMAIN export[i] = {"Time", "Variable", "VarValue"}
                            /\ export[i].Time = process[i].TimeString
                       ELSE /\ DOMAIN export[i] = {"ElapsedMinutes", "Variable", "VarValue"}
                            /\ export[i].ElapsedMinutes = process[i].ElapsedTime
                    /\ \A k \in DOMAIN call.new_variables :
                          call.new_variables[k] # export[i].Variable
                    /\ \A k \in DOMAIN call.manual_variables :
                          call.manual_variables[k] # export[i].Variable
    /\ (call.op = "download_graph_data" /\ call.outcome = "file") =>
          /\ call.rows = call.graph_data
          /\ call.header[2] = "Variable" /\ call.header[3] = "VarValue"
          /\ call.header[1] = IF "Time" \in DOMAIN call.graph_data[1]
                              THEN "Time" ELSE "Elapsed Time (minutes)"

\* a figure in elapsed mode of a process, an offline and a manual variable: the
\* rows of three variables are drawn, those of the process variable are stored
C25_Witness ==
    /\ call.op = "update_graph"
    /\ call.outcome = "figure"
    /\ call.time_mode = "elapsed"
    /\ Len(call.new_variables) = 1
    /\ Len(call.manual_variables) = 1
    /\ Cardinality({call.all_data[i].Variable : i \in DOMAIN call.all_data}) = 3
    /\ call.export # <<>>
    /\ \A i \in DOMAIN call.export : call.export[i].Variable = V_78TT001


(***************************************************************************)
(* The object a submit form writes to                                      *)
(***************************************************************************)
\* the texts sanitize_filename is tried on
SanitizeTexts ==
    UNION {[1..k -> SanitizeAlphabet] : k \in 0..MaxLen}
       \cup {NameSlash, VarPH, VarAB, VarA_B, VarColour}

\* sanitizing a sanitized text changes nothing
SanitizeIsIdempotent ==
    \A s \in SanitizeTexts :
       sanitize_filename(sanitize_filename(s)) = sanitize_filename(s)

\* the kind of file each submit form writes
KindOfOp(op) ==
    CASE op = "submit_float_data" -> KindFloat
      [] op = "submit_percentage_data" -> KindPercentage
      [] op = "submit_string_data" -> KindString
      [] op = "submit_binary_data" -> KindBinary

\* the file create_variable writes for the name the dropdown of the form offers
CreatedFile(variable, data_type) == variable \o Underscore \o data_type \o DotCsv

\* C26: sanitize_filename is idempotent, and a submit form that stores a row
\* for a variable name offered by get_variables_by_type(kind) appends that row
\* to the object <name>_<kind>.csv that was already there: no other object
\* appears and that object holds one row more
C26_SubmitAppendsToCreatedObject ==
    [][ /\ SanitizeIsIdempotent
        /\ ( /\ call'.op \in SubmitOps
             /\ call'.outcome = "submitted"
             /\ call'.variable \in
                   get_variables_by_type(manual_store, KindOfOp(call'.op)) )
           => LET file == CreatedFile(call'.variable, KindOfOp(call'.op))
              IN /\ call'.filename = file
                 /\ DOMAIN manual_store' = DOMAIN manual_store
                 /\ Len(manual_store'[file].rows) = Len(manual_store[file].rows) + 1
                 /\ \A n \in DOMAIN manual_store \ {file} :
                       manual_store'[n] = manual_store[n] ]_vars

\* the form of the percentage files has stored two rows for the name A_B, which
\* the dropdown offers for the template created under the name A/B
C26_Witness ==
    /\ call.op = "submit_percentage_data"
    /\ call.outcome = "submitted"
    /\ call.variable = VarA_B
    /\ DOMAIN manual_store = {CreatedFile(VarA_B, KindPercentage)}
    /\ Len(manual_store[CreatedFile(VarA_B, KindPercentage)].rows) = 2


(***************************************************************************)
(* The prefixes read back from the output bucket                           *)
(***************************************************************************)
\* C27: after a merge that uploaded at least one file under the prefix p,
\* extract_prefixes_from_saved_files(output_bucket) returns p; the batch being
\* selectable without the in-memory list and the dropdown values naming the
\* written files both rest on this
C27_UploadedPrefixIsExtracted ==
    (call.op = "update_file_list" /\ call.outcome = "saved" /\ call.saved_files # <<>>)
    => call.filename_prefix \in extract_prefixes_from_saved_files(output_store)


(***************************************************************************)
(* Interleaved submissions: every access to the manual bucket of a running *)
(* submit_float_data is a step of its own (lines 1365-1385)                *)
(***************************************************************************)
\* the locals of one running submit_float_data
NewSubmit ==
    [pc |-> "idle", filename |-> <<>>, new_row |-> << >>, found |-> FALSE,
     data |-> << >>, content |-> << >>, outcome |-> "none"]

\* the clicks of the float form: n_clicks, variable, value, units, days, notes
AppendInputs == {in \in FloatInputs : in[1] = 1}

\* the buckets the submissions start from: no file, a template, a file of one row
AppendStores ==
    { << >>,
      ManualFile(VarPH, KindFloat) :> [header |-> FloatColumns, rows |-> <<>>],
      ManualFile(VarPH, KindFloat) :>
          NewContent(FloatColumns,
                     [variable_name |-> StrValue(VarPH), value |-> FloatValue(5),
                      units |-> StrValue(UnitsL), notes |-> StrValue(<<>>),
                      days_since_inoculation |-> IntValue(1)]) }

\* lines 1345-1366: the inputs are validated and the new row is built
SubmitStart(i) ==
    /\ req[i].pc = "idle"
    /\ \E in \in AppendInputs :
          IF in[2] = <<>> \/ ~ IsNotNone(in[3]) \/ in[4] = <<>> \/ ~ IsNotNone(in[5])
          THEN req' = [req EXCEPT ![i] =
                          [@ EXCEPT !.pc = "done", !.outcome = "missing input"]]
          ELSE req' = [req EXCEPT ![i] =
                          [@ EXCEPT !.pc = "exists",
                                    !.filename = ManualFile(in[2], KindFloat),
                                    !.new_row =
                                        [variable_name |-> StrValue(in[2]),
                                         value |-> FloatValue(in[3].n),
                                         units |-> StrValue(in[4]),
                                         notes |-> StrValue(in[6]),
                                         days_since_inoculation |-> IntValue(in[5].n)]]]
    /\ UNCHANGED <<manual_store, primary_listing, output_store, merged_dataframes,
                   filename_prefixes, call>>

\* line 1369: blob.exists(); lines 1371-1373 build the text of a first file
CheckExists(i) ==
    /\ req[i].pc = "exists"
    /\ IF req[i].filename \in DOMAIN manual_store
       THEN req' = [req EXCEPT ![i] = [@ EXCEPT !.pc = "download", !.found = TRUE]]
       ELSE req' = [req EXCEPT ![i] =
                       [@ EXCEPT !.pc = "upload",
                                 !.content = NewContent(FloatColumns, req[i].new_row)]]
    /\ UNCHANGED <<manual_store, primary_listing, output_store, merged_dataframes,
                   filename_prefixes, call>>

\* lines 1377-1381: blob.download_as_text() and the text of the updated file
Download(i) ==
    /\ req[i].pc = "download"
    /\ LET data == manual_store[req[i].filename]
       IN  req' = [req EXCEPT ![i] =
                      [@ EXCEPT !.pc = "upload", !.data = data,
                                !.content = UpdatedContent(data, req[i].new_row)]]
    /\ UNCHANGED <<manual_store, primary_listing, output_store, merged_dataframes,
                   filename_prefixes, call>>

\* lines 1374 and 1382-1383: blob.upload_from_string, then the success alert
Upload(i) ==
    /\ req[i].pc = "upload"
    /\ manual_store' = upload(manual_store, req[i].filename, req[i].content)
    /\ req' = [req EXCEPT ![i] = [@ EXCEPT !.pc = "done", !.outcome = "submitted"]]
    /\ UNCHANGED <<primary_listing, output_store, merged_dataframes,
                   filename_prefixes, call>>

SubmitStartStep == \E i \in Requests : SubmitStart(i)

CheckExistsStep == \E i \in Requests : CheckExists(i)

DownloadStep == \E i \in Requests : Download(i)

UploadStep == \E i \in Requests : Upload(i)

InitAppend ==
    /\ primary_listing \in Listings
    /\ output_store = << >>
    /\ merged_dataframes = [v \in VariableSet |-> <<>>]
    /\ filename_prefixes = <<>>
    /\ call = Idle
    /\ req = [i \in Requests |-> NewSubmit]
    /\ manual_store \in AppendStores

NextAppend == SubmitStartStep \/ CheckExistsStep \/ DownloadStep \/ UploadStep

SpecAppend == InitAppend /\ [][NextAppend]_vars

\* the number of rows a submission found in the file: none when the file was absent
RowsRead(r) == IF r.found THEN Len(r.data.rows) ELSE 0

BothSubmitted ==
    /\ \A i \in Requests : req[i].pc = "done" /\ req[i].outcome = "submitted"
    /\ req[1].filename = req[2].filename

\* C28: a submission uploads the whole file as it read it plus its own row, in
\* separate steps: when two submissions to one file have both reported success,
\* the file holds the rows the earlier reader found and either both new rows or
\* one of them, and it holds just one exactly when both read the same file,
\* neither seeing the upload of the other
C28_AppendIsReadModifyWrite ==
    BothSubmitted =>
        LET n == Len(manual_store[req[1].filename].rows)
            base == IF RowsRead(req[1]) < RowsRead(req[2])
                    THEN RowsRead(req[1]) ELSE RowsRead(req[2])
        IN  /\ n \in {base + 1, base + 2}
            /\ n = base + 1 <=> RowsRead(req[1]) = RowsRead(req[2])

\* both submissions downloaded the file of one row and both reported success:
\* the file holds two rows, the old one and one of the two new ones
C28_Witness ==
    /\ BothSubmitted
    /\ \A i \in Requests : req[i].found /\ Len(req[i].data.rows) = 1
    /\ Len(manual_store[req[1].filename].rows) = 2
    /\ req[1].new_row # req[2].new_row


(***************************************************************************)
(* One variable selected from two batches                                  *)
(***************************************************************************)
\* C29: loaded process series are keyed by the variable name alone: when the
\* same variable is selected from two batch prefixes and both merged files are
\* there, every loaded row is tagged with that variable name, the figure has one
\* trace for it, and the export tags its rows with the same Variable value
C29_SeriesKeyedByVariableOnly ==
    (/\ call.op = "update_graph"
     /\ call.outcome = "figure"
     /\ Len(call.selected_variables) = 2
     /\ call.new_variables = <<>>
     /\ call.manual_variables = <<>>
     /\ OfferedVariable(call.selected_variables[1])
           = OfferedVariable(call.selected_variables[2])
     /\ \A k \in {1, 2} : LookupFile(call.selected_variables[k]) \in DOMAIN output_store)
    => LET v == OfferedVariable(call.selected_variables[1])
       IN  /\ \A i \in DOMAIN call.all_data : call.all_data[i].Variable = v
           /\ Len(call.traces) = 1
           /\ call.traces[1].Variable = v
           /\ \A i \in DOMAIN call.export : call.export[i].Variable = v


(***************************************************************************)
(* The branches of update_file_list                                        *)
(***************************************************************************)
\* C30: on every branch of update_file_list the prefix options returned contain
\* every prefix extract_prefixes_from_saved_files derives from the objects then
\* in the output bucket, and on every branch but the successful merge no object
\* is written, the accumulator is not rebound and no prefix is registered.  The
\* branches are the four that return: no click or missing input, invalid date,
\* no file in range, successful merge
C30_OptionsCoverStoredPrefixes ==
    [][ (/\ call'.op = "update_file_list"
         /\ call'.outcome \in {"default", "invalid date", "no files", "saved"}) =>
          /\ extract_prefixes_from_saved_files(output_store') \subseteq
                call'.prefix_options
          /\ call'.outcome # "saved" =>
                /\ output_store' = output_store
                /\ merged_dataframes' = merged_dataframes
                /\ filename_prefixes' = filename_prefixes ]_vars

=============================================================================
